---- MODULE Spec2Model ----
(***************************************************************************)
(* A model of the plojo stenography translator: the stroke history, the    *)
(* greedy dictionary lookup, the formatter (parse_translation), the text   *)
(* diff and the three Translator operations translate / undo /             *)
(* handle_command.                                                         *)
(*                                                                         *)
(* Representation.  A Rust String is a sequence of characters, each        *)
(* character a one-character TLA+ string; offsets into a String count      *)
(* characters.  A Stroke is the String of its canonical raw form.          *)
(* Option<T> is a sequence of length 0 (None) or 1 (Some).  An enum value  *)
(* is a record whose first field names the variant.                        *)
(***************************************************************************)
EXTENDS Integers, Sequences, FiniteSets, TLC

VARIABLES
    prev_strokes,             \* StandardTranslator.prev_strokes
    dict,                     \* StandardTranslator.dict
    retrospective_add_space,  \* StandardTranslator.retrospective_add_space
    add_space_insert,         \* StandardTranslator.add_space_insert (Option)
    space_after,              \* StandardTranslator.space_after
    out,                      \* the Vec<Command> the last call returned
    op,                       \* the last Translator call
    removed,                  \* strokes the last call removed from the history
    op0,                      \* after undo(): "translate" if that call came just before
    out0,                     \* after undo(): what that translate returned
    preRender,                \* the old rendering of the last visible translate
    visOp,                    \* kind of the last visible translate
    buffer,                   \* the text the Replace commands built downstream
    fed,                      \* the strokes handed to translate so far
    steps,                    \* calls made so far (bounded runs only)
    twin,                     \* what a second translator made of the last stroke
    call,                     \* the last call of a pure function: arguments and result
    do_output,                \* main: an argument was passed, output is enabled
    dispatched,               \* the command vectors Controller::dispatch received
    listening,                \* SerialMachine::listen is in its loop
    reads                     \* what port.read_exact returned, pass by pass

\* the StandardTranslator struct
Self ==
    [prev_strokes |-> prev_strokes, dict |-> dict,
     retrospective_add_space |-> retrospective_add_space,
     add_space_insert |-> add_space_insert, space_after |-> space_after]

vars == <<prev_strokes, dict, retrospective_add_space, add_space_insert, space_after,
          out, op, removed, op0, out0, preRender, visOp, buffer, fed, steps, twin, call,
          do_output, dispatched, listening, reads>>

----------------------------------------------------------------------------
(* Generic helpers *)

Max(S) == CHOOSE x \in S : \A y \in S : y <= x

Min2(a, b) == IF a < b THEN a ELSE b

Front(s) == SubSeq(s, 1, Len(s) - 1)

Last(s) == s[Len(s)]

Some(x) == <<x>>

None == <<>>

\* str.rfind(pred): the 1-based position of the last character satisfying P, 0 if none
RFind(str, P(_)) ==
    LET I == {i \in 1..Len(str) : P(str[i])}
    IN  IF I = {} THEN 0 ELSE Max(I)

----------------------------------------------------------------------------
(* Characters *)

SPACE == " "

LowerLetters == <<"a","b","c","d","e","f","g","h","i","j","k","l","m",
                  "n","o","p","q","r","s","t","u","v","w","x","y","z">>

UpperLetters == <<"A","B","C","D","E","F","G","H","I","J","K","L","M",
                  "N","O","P","Q","R","S","T","U","V","W","X","Y","Z">>

Digits == {"0","1","2","3","4","5","6","7","8","9"}

SeqRange(s) == {s[i] : i \in 1..Len(s)}

\* char::is_alphabetic
is_alphabetic(c) == c \in SeqRange(LowerLetters) \cup SeqRange(UpperLetters) \cup {"ß"}

\* char::is_alphanumeric
is_alphanumeric(c) == is_alphabetic(c) \/ c \in Digits

TAB == "\t"

\* char::is_whitespace
is_whitespace(c) == c \in {SPACE, TAB}

\* char::to_uppercase: a String, since one character may become several
char_to_uppercase(c) ==
    IF c \in SeqRange(LowerLetters)
    THEN <<UpperLetters[CHOOSE i \in 1..Len(LowerLetters) : LowerLetters[i] = c]>>
    ELSE IF c = "ß" THEN <<"S", "S">> ELSE <<c>>

\* char::to_lowercase
char_to_lowercase(c) ==
    IF c \in SeqRange(UpperLetters)
    THEN <<LowerLetters[CHOOSE i \in 1..Len(UpperLetters) : UpperLetters[i] = c]>>
    ELSE <<c>>

RECURSIVE to_uppercase(_)
to_uppercase(word) ==
    IF word = <<>> THEN <<>>
    ELSE char_to_uppercase(Head(word)) \o to_uppercase(Tail(word))

RECURSIVE to_lowercase(_)
to_lowercase(word) ==
    IF word = <<>> THEN <<>>
    ELSE char_to_lowercase(Head(word)) \o to_lowercase(Tail(word))

----------------------------------------------------------------------------
(* Commands (plojo_core) *)

Replace(n, s) == [c |-> "Replace", n |-> n, s |-> s]

NoOp == [c |-> "NoOp"]

PrintHello == [c |-> "PrintHello"]

----------------------------------------------------------------------------
(* Text atoms and translations *)

Lit(text) == [k |-> "Lit", text |-> text]

UnknownStroke(stroke) == [k |-> "UnknownStroke", stroke |-> stroke]

Attached(text, joined_next, joined_prev, carry_capitalization) ==
    [k |-> "Attached", text |-> text, joined_next |-> joined_next,
     joined_prev |-> joined_prev, carry_capitalization |-> carry_capitalization]

Glued(text) == [k |-> "Glued", text |-> text]

StateAction(action) == [k |-> "StateAction", action |-> action]

TextAction(action) == [k |-> "TextAction", action |-> action]

ForceCapitalize == [a |-> "ForceCapitalize"]

SameCase(b) == [a |-> "SameCase", b |-> b]

Clear == [a |-> "Clear"]

CapitalizePrev == [a |-> "CapitalizePrev"]

SuppressSpacePrev == [a |-> "SuppressSpacePrev"]

SameCasePrev(b) == [a |-> "SameCasePrev", b |-> b]

TranslationText(texts) == [t |-> "Text", text |-> texts]

TranslationCommand(cmds, text_after, suppress_space_before) ==
    [t |-> "Command", cmds |-> cmds, text_after |-> text_after,
     suppress_space_before |-> suppress_space_before]

\* Translation::as_text
as_text(tr) ==
    IF tr.t = "Text" THEN tr.text
    ELSE IF tr.text_after = None THEN <<>> ELSE tr.text_after[1]

----------------------------------------------------------------------------
(* The formatter: diff/parser.rs *)

\* NUMBERS_ONLY_REGEX  ^[0-9]+$
NUMBERS_ONLY_REGEX(s) == Len(s) > 0 /\ \A i \in 1..Len(s) : s[i] \in Digits

\* NUMBER_TRANSLATION_REGEX  ^[0-9\-]+$
NUMBER_TRANSLATION_REGEX(s) == Len(s) > 0 /\ \A i \in 1..Len(s) : s[i] \in Digits \cup {"-"}

\* raw_stroke.replace("-", "")
RECURSIVE remove_hyphens(_)
remove_hyphens(s) ==
    IF s = <<>> THEN <<>>
    ELSE IF Head(s) = "-" THEN remove_hyphens(Tail(s))
    ELSE <<Head(s)>> \o remove_hyphens(Tail(s))

\* State::default()
DefaultState ==
    [suppress_space |-> FALSE, force_capitalize |-> FALSE,
     prev_is_glued |-> FALSE, force_same_case |-> None]

\* word_change_first_letter that changes every letter
word_change_first_letter_Whole(text) == to_uppercase(text)

\* Forces the first letter of a string to be uppercase
word_change_first_letter(text) ==
    IF text = <<>> THEN <<>>
    ELSE char_to_uppercase(Head(text)) \o Tail(text)

\* find_last_word_space that stops at the first whitespace
find_last_word_space_First(text) ==
    LET I == {i \in 1..Len(text) : is_whitespace(text[i])}
    IN  IF I = {} THEN 0 ELSE CHOOSE i \in I : \A j \in I : i <= j

\* Offset after the last whitespace: 0 if there is none
find_last_word_space(text) == RFind(text, is_whitespace)

\* chars (besides alphanumeric) that are considered part of a word
WORD_CHARS == {"-", "_"}

NotWordChar(c) == ~(is_alphanumeric(c) \/ c \in WORD_CHARS)

\* find_last_word that takes everything after the last whitespace as the word
find_last_word_AfterSpace(text) == RFind(text, is_whitespace)

\* Offset of the last word: after the last character that is not part of a word
find_last_word(text) == RFind(text, NotWordChar)

\* str.remove(index) with a 0-based offset
RemoveAt(str, index) == SubSeq(str, 1, index) \o SubSeq(str, index + 2, Len(str))

perform_text_action(text, action) ==
    CASE action.a = "SuppressSpacePrev" ->
            LET index == find_last_word_space(text)
            IN  IF index > 0 /\ text[index] = " "
                THEN RemoveAt(text, index - 1)
                ELSE text
      [] action.a = "CapitalizePrev" ->
            LET index == find_last_word(text)
                word  == SubSeq(text, index + 1, Len(text))
            IN  SubSeq(text, 1, index) \o word_change_first_letter(word)
      [] action.a = "SameCasePrev" ->
            LET index == find_last_word(text)
                word  == SubSeq(text, index + 1, Len(text))
            IN  SubSeq(text, 1, index) \o
                (IF action.b THEN to_uppercase(word) ELSE to_lowercase(word))

Vowels == {"a", "e", "i", "o", "u"}

\* orthography::apply_orthography: the rule  consonant + y, suffix s  ->  ies ;
\* with no matching rule the stem and the suffix are concatenated
apply_orthography(stem, suffix) ==
    IF /\ suffix = <<"s">>
       /\ Len(stem) >= 2
       /\ stem[Len(stem)] = "y"
       /\ is_alphabetic(stem[Len(stem) - 1])
       /\ stem[Len(stem) - 1] \notin Vowels
    THEN Front(stem) \o <<"i", "e", "s">>
    ELSE stem \o suffix

NotAlphabetic(c) == ~is_alphabetic(c)

\* EmitWord that puts the space after the word
EmitWord_SpaceAfterWord(state, next_state, next_word, str) ==
    [state |-> next_state,
     str   |-> IF ~state.suppress_space THEN Append(str \o next_word, SPACE)
               ELSE str \o next_word]

\* The tail of the loop body of parse_translation (lines 153-170): put the word
\* after a space unless suppressed, with the pending case changes applied
EmitWord(state, next_state, next_word, str) ==
    LET spaced == IF ~state.suppress_space THEN Append(str, SPACE) ELSE str
        word1  == IF state.force_capitalize
                  THEN word_change_first_letter(next_word) ELSE next_word
        word2  == IF state.force_same_case # None
                  THEN (IF state.force_same_case[1]
                        THEN to_uppercase(word1) ELSE to_lowercase(word1))
                  ELSE word1
    IN  [state |-> next_state, str |-> spaced \o word2]

\* EmitGlued that never suppresses the space
EmitGlued_NoGlue(state, next_word, str) ==
    EmitWord(state, [DefaultState EXCEPT !.prev_is_glued = TRUE], next_word, str)

\* A glued word: Text::Glued, a digits-only Lit or a number stroke
EmitGlued(state, next_word, str) ==
    EmitWord([state EXCEPT !.suppress_space = @ \/ state.prev_is_glued],
             [DefaultState EXCEPT !.prev_is_glued = TRUE], next_word, str)

\* ParseAttached that joins by joined_prev whether or not the space is suppressed
ParseAttached_AlwaysJoins(state, str, t) ==
    LET next_state ==
            [DefaultState EXCEPT
                !.suppress_space = t.joined_next,
                !.force_capitalize = t.carry_capitalization /\ state.force_capitalize,
                !.force_same_case =
                    IF t.carry_capitalization THEN state.force_same_case ELSE None]
        state1 == IF t.carry_capitalization
                  THEN [state EXCEPT !.force_capitalize = FALSE] ELSE state
    IN  IF t.joined_prev = "DoNotAttach"
        THEN EmitWord(state1, next_state, t.text, str)
        ELSE IF t.joined_prev = "AttachOnly"
        THEN EmitWord([state1 EXCEPT !.suppress_space = TRUE], next_state, t.text, str)
        ELSE LET index == RFind(str, NotAlphabetic)
             IN  [state |-> next_state,
                  str   |-> IF index < Len(str)
                            THEN SubSeq(str, 1, index) \o
                                 apply_orthography(SubSeq(str, index + 1, Len(str)), t.text)
                            ELSE str \o t.text]

\* Text::Attached (lines 65-124)
ParseAttached(state, str, t) ==
    LET next_state ==
            [DefaultState EXCEPT
                !.suppress_space = t.joined_next,
                !.force_capitalize = t.carry_capitalization /\ state.force_capitalize,
                !.force_same_case =
                    IF t.carry_capitalization THEN state.force_same_case ELSE None]
        state1 == IF t.carry_capitalization
                  THEN [state EXCEPT !.force_capitalize = FALSE] ELSE state
    IN  IF state1.suppress_space \/ t.joined_prev = "DoNotAttach"
        THEN EmitWord(state1, next_state, t.text, str)
        ELSE IF t.joined_prev = "AttachOnly"
        THEN EmitWord([state1 EXCEPT !.suppress_space = TRUE], next_state, t.text, str)
        ELSE \* ApplyOrthography
             LET index == RFind(str, NotAlphabetic)
             IN  [state |-> next_state,
                  str   |-> IF index < Len(str)
                            THEN SubSeq(str, 1, index) \o
                                 apply_orthography(SubSeq(str, index + 1, Len(str)), t.text)
                            ELSE str \o t.text]

\* One iteration of the loop of parse_translation over the atom t
ParseStep(acc, t) ==
    LET state == acc.state
        str   == acc.str
    IN  CASE t.k = "Lit" ->
                IF NUMBERS_ONLY_REGEX(t.text)
                THEN EmitGlued(state, t.text, str)
                ELSE EmitWord(state, DefaultState, t.text, str)
          [] t.k = "UnknownStroke" ->
                IF NUMBER_TRANSLATION_REGEX(t.stroke)
                THEN EmitGlued(state, remove_hyphens(t.stroke), str)
                ELSE EmitWord(state, DefaultState, t.stroke, str)
          [] t.k = "Attached" -> ParseAttached(state, str, t)
          [] t.k = "Glued" -> EmitGlued(state, t.text, str)
          [] t.k = "StateAction" ->
                [state |-> CASE t.action.a = "ForceCapitalize" ->
                                    [state EXCEPT !.force_capitalize = TRUE]
                             [] t.action.a = "SameCase" ->
                                    [state EXCEPT !.force_same_case = Some(t.action.b)]
                             [] t.action.a = "Clear" -> DefaultState,
                 str |-> str]
          [] t.k = "TextAction" ->
                [state |-> state, str |-> perform_text_action(str, t.action)]

\* TRUE of every value; its argument is evaluated when it is applied
Evaluated(x) == x = x

\* the for loop over the translations; state and str are updated at every
\* iteration, before the next one starts
RECURSIVE ParseLoop(_, _, _)
ParseLoop(translations, i, acc) ==
    IF i > Len(translations) THEN acc
    ELSE LET next == ParseStep(acc, translations[i])
         IN  IF Evaluated(next) THEN ParseLoop(translations, i + 1, next) ELSE acc

\* SpaceAfterPass that appends the space whatever the final state
SpaceAfterPass_AlwaysSpace(state, str) ==
    Append(IF str[1] = SPACE THEN Tail(str) ELSE str, SPACE)

\* put space after if it is configured to do so (lines 173-184)
SpaceAfterPass(state, str) ==
    LET stripped == IF str[1] = SPACE THEN Tail(str) ELSE str
    IN  IF ~state.suppress_space THEN Append(stripped, SPACE) ELSE stripped

parse_translation(translations, space_after_) ==
    LET acc == ParseLoop(translations, 1, [state |-> DefaultState, str |-> <<>>])
    IN  IF space_after_ /\ acc.str # <<>>
        THEN SpaceAfterPass(acc.state, acc.str)
        ELSE acc.str

----------------------------------------------------------------------------
(* Strokes and the dictionary *)

HL == <<"H", "-", "L">>

WORLD == <<"W", "O", "R", "L", "D">>

KPA == <<"K", "P", "A">>

AOE == <<"A", "O", "E">>

DASH_S == <<"-", "S">>

SP == <<"S", "-", "P">>

PHFP == <<"P", "H", "-", "F", "P">>

ASTAR == <<"A", "*">>

W_hello == <<"h", "e", "l", "l", "o">>

W_fly == <<"f", "l", "y">>

\* The entries a dictionary file yields, in file order: (key strokes, Translation).
\* A key is the sequence of its strokes (the code joins their raw forms with "/").
Entries1 ==
    << <<(<<HL>>),        TranslationText(<<Lit(W_hello)>>)>>,
       <<(<<KPA>>),       TranslationText(<<StateAction(ForceCapitalize)>>)>>,
       <<(<<AOE>>),       TranslationText(<<TextAction(CapitalizePrev)>>)>>,
       <<(<<DASH_S>>),    TranslationText(<<Attached(<<"s">>, FALSE, "ApplyOrthography", FALSE)>>)>>,
       <<(<<SP>>),        TranslationText(<<Attached(<<" ">>, TRUE, "ApplyOrthography", FALSE)>>)>>,
       <<(<<HL, WORLD>>), TranslationText(<<Lit(<<"x">>)>>)>>,
       <<(<<PHFP>>),      TranslationCommand(<<PrintHello>>, None, FALSE)>> >>

\* A later dictionary, overriding one entry of the first
Entries2 ==
    << <<(<<HL, WORLD>>), TranslationText(<<Lit(W_fly)>>)>> >>

\* from_iter that keeps the first value inserted for a key
RECURSIVE from_iter_FirstWins(_, _, _)
from_iter_FirstWins(entries, i, hashmap) ==
    IF i > Len(entries) THEN hashmap
    ELSE from_iter_FirstWins(entries, i + 1, hashmap @@ (entries[i][1] :> entries[i][2]))

\* FromIterator for Dictionary: hashmap.insert for each entry in turn, so a later
\* entry with the same key replaces the earlier one
RECURSIVE from_iter(_, _, _)
from_iter(entries, i, hashmap) ==
    IF i > Len(entries) THEN hashmap
    ELSE from_iter(entries, i + 1, (entries[i][1] :> entries[i][2]) @@ hashmap)

EmptyMap == [k \in {} |-> NoOp]

RECURSIVE ConcatAll(_)
ConcatAll(ss) == IF ss = <<>> THEN <<>> ELSE Head(ss) \o ConcatAll(Tail(ss))

\* Dictionary::new: the entries of all raw dictionaries, in order, collected
Dictionary_new(raw_dicts) == from_iter(ConcatAll(raw_dicts), 1, EmptyMap)

\* Dictionary::lookup
lookup(d, strokes) == IF strokes \in DOMAIN d THEN Some(d[strokes]) ELSE None

\* Limit on the number of strokes of one dictionary key (lookup.rs)
LOOKUP_MAX_STROKE_LEN == 15

\* add_max_limit_len that looks one stroke too far
add_max_limit_len_OneMore(strokes, n) ==
    LET with_max == n + LOOKUP_MAX_STROKE_LEN + 1
    IN  IF with_max > Len(strokes) THEN Len(strokes) ELSE with_max

\* limit how far to look forward; n is a 0-based start
add_max_limit_len(strokes, n) ==
    LET with_max == n + LOOKUP_MAX_STROKE_LEN
    IN  IF with_max > Len(strokes) THEN Len(strokes) ELSE with_max

\* FindEnd that takes the nearest end with an entry instead of the farthest
FindEnd_NearestFirst(d, strokes, start, end) ==
    LET hits == {e \in start..end : lookup(d, SubSeq(strokes, start + 1, e + 1)) # None}
    IN  IF hits = {} THEN -1 ELSE CHOOSE e \in hits : \A f \in hits : e <= f

\* The for loop of translate_strokes: ends (0-based, inclusive) are tried from
\* the farthest down to start; the result is the first end with an entry, or -1
RECURSIVE FindEnd(_, _, _, _)
FindEnd(d, strokes, start, end) ==
    IF end < start THEN -1
    ELSE IF lookup(d, SubSeq(strokes, start + 1, end + 1)) # None THEN end
    ELSE FindEnd(d, strokes, start, end - 1)

\* TranslateFrom that goes on one stroke too far after a key was matched
RECURSIVE TranslateFrom_SkipsAfterMatch(_, _, _)
TranslateFrom_SkipsAfterMatch(d, strokes, start) ==
    IF start >= Len(strokes) THEN <<>>
    ELSE LET end == FindEnd(d, strokes, start, add_max_limit_len(strokes, start) - 1)
         IN  IF end >= 0
             THEN <<lookup(d, SubSeq(strokes, start + 1, end + 1))[1]>>
                  \o TranslateFrom_SkipsAfterMatch(d, strokes, end + 2)
             ELSE <<TranslationText(<<UnknownStroke(strokes[start + 1])>>)>>
                  \o TranslateFrom_SkipsAfterMatch(d, strokes, start + 1)

\* The while loop of translate_strokes from the 0-based position start
RECURSIVE TranslateFrom(_, _, _)
TranslateFrom(d, strokes, start) ==
    IF start >= Len(strokes) THEN <<>>
    ELSE LET end == FindEnd(d, strokes, start, add_max_limit_len(strokes, start) - 1)
         IN  IF end >= 0
             THEN <<lookup(d, SubSeq(strokes, start + 1, end + 1))[1]>>
                  \o TranslateFrom(d, strokes, end + 1)
             ELSE <<TranslationText(<<UnknownStroke(strokes[start + 1])>>)>>
                  \o TranslateFrom(d, strokes, start + 1)

\* The ends the for loop of translate_strokes looks up from start: from the
\* farthest down to the first one with an entry
RECURSIVE EndsTried(_, _, _, _)
EndsTried(d, strokes, start, end) ==
    IF end < start THEN {}
    ELSE IF lookup(d, SubSeq(strokes, start + 1, end + 1)) # None THEN {end}
    ELSE {end} \cup EndsTried(d, strokes, start, end - 1)

\* The positions the while loop of translate_strokes starts from, in order
RECURSIVE StartsFrom(_, _, _)
StartsFrom(d, strokes, start) ==
    IF start >= Len(strokes) THEN <<>>
    ELSE LET end == FindEnd(d, strokes, start, add_max_limit_len(strokes, start) - 1)
         IN  <<start>> \o StartsFrom(d, strokes, IF end >= 0 THEN end + 1 ELSE start + 1)

\* The slices strokes[start..=end] that translate_strokes hands to dict.lookup
LookupsIssued(d, strokes) ==
    LET starts == StartsFrom(d, strokes, 0)
    IN  UNION {{[start |-> starts[i], end |-> e] :
                    e \in EndsTried(d, strokes, starts[i],
                                    add_max_limit_len(strokes, starts[i]) - 1)} :
               i \in 1..Len(starts)}

\* Dictionary::translate
translate_strokes(d, strokes) == TranslateFrom(d, strokes, 0)

----------------------------------------------------------------------------
(* The diff of two translation lists *)

\* The atoms a translation list is formatted from
RECURSIVE FlattenText(_)
FlattenText(trs) ==
    IF trs = <<>> THEN <<>>
    ELSE LET tr == Head(trs)
             pre == IF tr.t = "Command" /\ tr.suppress_space_before
                    THEN <<Attached(<<>>, TRUE, "AttachOnly", TRUE)>> ELSE <<>>
         IN  pre \o as_text(tr) \o FlattenText(Tail(trs))

\* The rendered string of a translation list
RenderTranslations(trs, space_after_) == parse_translation(FlattenText(trs), space_after_)

\* Length of the longest common prefix of two sequences
CommonPrefixLen(a, b) ==
    Max({k \in 0..Min2(Len(a), Len(b)) : \A i \in 1..k : a[i] = b[i]})

\* the number of bytes of a character in UTF-8
len_utf8(c) == IF c = "ß" THEN 2 ELSE 1

\* str::len: the number of bytes of a string
RECURSIVE ByteLen(_)
ByteLen(str) == IF str = <<>> THEN 0 ELSE len_utf8(Head(str)) + ByteLen(Tail(str))

\* text_diff that counts the backspaces in bytes
text_diff_ByteBackspaces(old, new) ==
    LET p == CommonPrefixLen(old, new)
    IN  IF Len(old) - p = 0 /\ Len(new) - p = 0 THEN NoOp
        ELSE Replace(ByteLen(old) - ByteLen(SubSeq(old, 1, p)), SubSeq(new, p + 1, Len(new)))

\* text_diff that backspaces all of old and types all of new
text_diff_RetypeAll(old, new) ==
    IF old = new THEN NoOp ELSE Replace(Len(old), new)

\* The differ: backspace what follows the common prefix of old, type the rest of new
text_diff(old, new) ==
    LET p == CommonPrefixLen(old, new)
    IN  IF Len(old) - p = 0 /\ Len(new) - p = 0 THEN NoOp
        ELSE Replace(Len(old) - p, SubSeq(new, p + 1, Len(new)))

\* The commands of the translations of new that follow its common prefix with old
RECURSIVE CollectCmds(_)
CollectCmds(trs) ==
    IF trs = <<>> THEN <<>>
    ELSE (IF Head(trs).t = "Command" THEN Head(trs).cmds ELSE <<>>)
         \o CollectCmds(Tail(trs))

new_commands(old, new) ==
    CollectCmds(SubSeq(new, CommonPrefixLen(old, new) + 1, Len(new)))

translation_diff(old, new, space_after_) ==
    <<text_diff(RenderTranslations(old, space_after_), RenderTranslations(new, space_after_))>>
    \o new_commands(old, new)

----------------------------------------------------------------------------
(* The translator: plojo_translator/src/lib.rs *)

\* most number of strokes to stroke in prev_strokes
MAX_STROKE_BUFFER == 50

\* only pass a certain number of strokes to be translated
MAX_TRANSLATION_STROKE_LEN == 10

\* Check whether the atoms hold non empty text
RECURSIVE is_text_atoms(_)
is_text_atoms(texts) ==
    IF texts = <<>> THEN FALSE
    ELSE LET text == Head(texts)
         IN  CASE text.k = "UnknownStroke" -> TRUE
               [] text.k \in {"Attached", "Glued", "Lit"} ->
                    IF text.text # <<>> THEN TRUE ELSE is_text_atoms(Tail(texts))
               [] OTHER -> is_text_atoms(Tail(texts))

\* Check whether the translation is non empty text
is_text(translation) ==
    IF translation.t = "Command"
    THEN IF translation.text_after # None
         THEN is_text_atoms(translation.text_after[1])
         ELSE FALSE
    ELSE is_text_atoms(translation.text)

\* dict.translate(&[s]).into_iter().any(is_text)
StrokeIsText(d, s) ==
    LET translated == translate_strokes(d, <<s>>)
    IN  \E i \in 1..Len(translated) : is_text(translated[i])

\* The rendering of a stroke list
Render(d, strokes, space_after_) ==
    RenderTranslations(translate_strokes(d, strokes), space_after_)

\* translate, lines 167-169: an overfull history loses its oldest stroke
DropOldest(ps) == IF Len(ps) > MAX_STROKE_BUFFER THEN Tail(ps) ELSE ps

\* WindowStart with a window of half the strokes
WindowStart_HalfWindow(ps) ==
    IF Len(ps) > MAX_TRANSLATION_STROKE_LEN \div 2
    THEN Len(ps) - MAX_TRANSLATION_STROKE_LEN \div 2
    ELSE 0

\* translate, lines 172-176: translate only latest strokes (a 0-based start)
WindowStart(ps) ==
    IF Len(ps) > MAX_TRANSLATION_STROKE_LEN
    THEN Len(ps) - MAX_TRANSLATION_STROKE_LEN
    ELSE 0

\* translate, lines 182-190: find the first undoable stroke (from the back).
\* index counts down from len; the stroke visited after the decrement is, in
\* 1-based terms, ps[index]
RECURSIVE RetroLoop(_, _, _)
RetroLoop(d, ps, index) ==
    IF index = 0 THEN 0
    ELSE IF StrokeIsText(d, ps[index]) THEN index - 1
    ELSE RetroLoop(d, ps, index - 1)

\* RetroIndex with the space appended when the history holds no textual stroke
RetroIndex_AppendWhenNoText(d, ps) ==
    IF \E i \in 1..Len(ps) : StrokeIsText(d, ps[i]) THEN RetroLoop(d, ps, Len(ps)) ELSE Len(ps)

\* RetroIndex with the space put after the newest textual stroke
RetroIndex_AfterNewestText(d, ps) == Min2(RetroLoop(d, ps, Len(ps)) + 1, Len(ps))

RetroIndex(d, ps) == RetroLoop(d, ps, Len(ps))

\* Vec::insert(index, x) with a 0-based index
InsertAt(ps, index, x) == SubSeq(ps, 1, index) \o <<x>> \o SubSeq(ps, index + 1, Len(ps))

\* AddStroke that pushes a stroke only if its translation has text
AddStroke_TextOnly(self, ps, stroke) ==
    IF stroke \in SeqRange(self.retrospective_add_space)
    THEN IF self.add_space_insert # None
         THEN InsertAt(ps, RetroIndex(self.dict, ps), self.add_space_insert[1])
         ELSE ps
    ELSE IF StrokeIsText(self.dict, stroke) THEN Append(ps, stroke) ELSE ps

\* AddStroke that takes every stroke for a retro-space stroke once any is configured
AddStroke_AnyRetro(self, ps, stroke) ==
    IF self.retrospective_add_space # <<>>
    THEN IF self.add_space_insert # None
         THEN InsertAt(ps, RetroIndex(self.dict, ps), self.add_space_insert[1])
         ELSE ps
    ELSE Append(ps, stroke)

\* translate, lines 181-198: the history with the stroke, or the space, added
AddStroke(self, ps, stroke) ==
    IF stroke \in SeqRange(self.retrospective_add_space)
    THEN IF self.add_space_insert # None
         THEN InsertAt(ps, RetroIndex(self.dict, ps), self.add_space_insert[1])
         ELSE ps
    ELSE Append(ps, stroke)

\* The translations of the window of a history that starts at start
WindowTranslations(d, ps, start) == translate_strokes(d, SubSeq(ps, start + 1, Len(ps)))

\* translate that leaves the translator without a trailing space pending
translate_ResetsSpaceAfter(self, stroke) ==
    LET ps0   == DropOldest(self.prev_strokes)
        start == WindowStart(ps0)
        old_translations == WindowTranslations(self.dict, ps0, start)
        ps1   == AddStroke(self, ps0, stroke)
        new_translations == WindowTranslations(self.dict, ps1, start)
    IN  [self |-> [self EXCEPT !.prev_strokes = ps1, !.space_after = FALSE],
         out  |-> translation_diff(old_translations, new_translations, self.space_after),
         old  |-> RenderTranslations(old_translations, self.space_after)]

\* StandardTranslator::translate: the translator after the call, the commands
\* returned, and the rendering of old_translations
translate(self, stroke) ==
    LET ps0   == DropOldest(self.prev_strokes)
        start == WindowStart(ps0)
        old_translations == WindowTranslations(self.dict, ps0, start)
        ps1   == AddStroke(self, ps0, stroke)
        new_translations == WindowTranslations(self.dict, ps1, start)
    IN  [self |-> [self EXCEPT !.prev_strokes = ps1],
         out  |-> translation_diff(old_translations, new_translations, self.space_after),
         old  |-> RenderTranslations(old_translations, self.space_after)]

\* StandardTranslator::undo, the while loop: keep on removing strokes as long as
\* they are the same (when diffed)
RECURSIVE UndoLoop(_, _, _)
UndoLoop(self, ps, old_translations) ==
    IF ps = <<>> THEN [self |-> [self EXCEPT !.prev_strokes = ps], out |-> <<NoOp>>]
    ELSE LET ps1  == Front(ps)
             diff == translation_diff(old_translations,
                                      translate_strokes(self.dict, ps1), self.space_after)
         IN  IF diff # <<NoOp>>
             THEN [self |-> [self EXCEPT !.prev_strokes = ps1], out |-> diff]
             ELSE UndoLoop(self, ps1, old_translations)

\* undo with old_translations taken after the first pop instead of before it
undo_OldAfterPop(self) ==
    UndoLoop(self, self.prev_strokes,
             translate_strokes(self.dict, IF self.prev_strokes = <<>> THEN <<>>
                                          ELSE Front(self.prev_strokes)))

\* undo that pops one stroke and returns its diff, visible or not
undo_PopOnce(self) ==
    IF self.prev_strokes = <<>> THEN [self |-> self, out |-> <<NoOp>>]
    ELSE LET ps1 == Front(self.prev_strokes)
         IN  [self |-> [self EXCEPT !.prev_strokes = ps1],
              out  |-> translation_diff(translate_strokes(self.dict, self.prev_strokes),
                                        translate_strokes(self.dict, ps1), self.space_after)]

\* undo that puts the strokes back when none of them was visible
undo_RestoresInvisible(self) ==
    LET r == UndoLoop(self, self.prev_strokes,
                      translate_strokes(self.dict, self.prev_strokes))
    IN  IF r.out = <<NoOp>> THEN [self |-> self, out |-> <<NoOp>>] ELSE r

\* StandardTranslator::undo
undo(self) ==
    UndoLoop(self, self.prev_strokes, translate_strokes(self.dict, self.prev_strokes))

\* clear_prev_strokes that pops the last stroke and never stores the new vector
clear_prev_strokes_NotStored(ps) == IF ps # <<>> THEN Front(ps) ELSE <<>>

\* clear_prev_strokes that does not push the last stroke back
clear_prev_strokes_DropsLast(ps) == <<>>

\* handle_command, "clear_prev_strokes": remove every stroke before the last
clear_prev_strokes(ps) == IF ps # <<>> THEN <<Last(ps)>> ELSE <<>>

\* handle_command whose "toggle_space_after" also clears the history
handle_command_ToggleClears(self, command) ==
    CASE command = "clear_prev_strokes" ->
            [self EXCEPT !.prev_strokes = clear_prev_strokes(self.prev_strokes)]
      [] command = "toggle_space_after" ->
            [self EXCEPT !.space_after = ~self.space_after,
                         !.prev_strokes = clear_prev_strokes(self.prev_strokes)]
      [] OTHER -> self

\* StandardTranslator::handle_command
handle_command(self, command) ==
    CASE command = "clear_prev_strokes" ->
            [self EXCEPT !.prev_strokes = clear_prev_strokes(self.prev_strokes)]
      [] command = "toggle_space_after" ->
            [self EXCEPT !.space_after = ~self.space_after]
      [] OTHER -> self

\* StandardTranslator::new without its assertion
new_accepts_Unchecked(retro, ins) == TRUE

\* StandardTranslator::new: the arguments it accepts (it panics on a retro-space
\* stroke list with no space stroke)
new_accepts(retro, ins) == retro # <<>> => ins # None

----------------------------------------------------------------------------
(* The downstream text: what a Controller makes of the commands *)

\* Controller::dispatch of one command: Replace deletes before the cursor, then types
ApplyCommand(buf, cmd) ==
    IF cmd.c = "Replace"
    THEN SubSeq(buf, 1, IF cmd.n > Len(buf) THEN 0 ELSE Len(buf) - cmd.n) \o cmd.s
    ELSE buf

RECURSIVE ApplyAll(_, _)
ApplyAll(buf, cmds) ==
    IF cmds = <<>> THEN buf ELSE ApplyAll(ApplyCommand(buf, Head(cmds)), Tail(cmds))

----------------------------------------------------------------------------
(* Bounds and input sets *)

\* longest history the runs of Spec build
MaxHistory == 3

\* the strokes the machine sends
Strokes == {HL, WORLD, KPA, AOE, DASH_S, PHFP, ASTAR}

\* the strings handle_command is called with
CommandNames == {"clear_prev_strokes", "toggle_space_after", "bogus"}

\* the raw dictionaries a translator is built from
RawDicts == <<Entries1, Entries2>>

\* (retrospective_add_space, add_space_insert) as configured
RetroConfigs == {<<(<<ASTAR>>), Some(SP)>>, <<(<<ASTAR>>), None>>, <<(<<>>), None>>}

----------------------------------------------------------------------------
(* The calls of the Translator trait as actions *)

IsRetro(stroke) == stroke \in SeqRange(retrospective_add_space)

SetSelf(self) ==
    /\ prev_strokes' = self.prev_strokes
    /\ dict' = self.dict
    /\ retrospective_add_space' = self.retrospective_add_space
    /\ add_space_insert' = self.add_space_insert
    /\ space_after' = self.space_after

\* the last visible translate as known before a call: an undo() forgets it
KnownVisOp == IF op = "undo" THEN "none" ELSE visOp

\* translator.translate(stroke)
TranslateCall(stroke) ==
    \E r \in {translate(Self, stroke)} :
    LET visible == r.out[1] # NoOp
    IN  /\ SetSelf(r.self)
        /\ out' = r.out
        /\ op' = IF IsRetro(stroke) THEN "retro" ELSE "translate"
        /\ removed' = Len(prev_strokes) - Len(DropOldest(prev_strokes))
        /\ op0' = "none"
        /\ out0' = <<>>
        /\ visOp' = IF IsRetro(stroke)
                    THEN (IF visible THEN "retro" ELSE "retro_invisible")
                    ELSE IF visible THEN "translate" ELSE KnownVisOp
        /\ preRender' = IF visible THEN r.old
                        ELSE IF IsRetro(stroke) \/ KnownVisOp = "none" THEN <<>>
                        ELSE preRender

\* translator.undo()
UndoCall ==
    \E r \in {undo(Self)} :
        /\ SetSelf(r.self)
        /\ out' = r.out
        /\ op' = "undo"
        /\ removed' = Len(prev_strokes) - Len(r.self.prev_strokes)
        /\ op0' = IF op = "translate" THEN op ELSE "none"
        /\ out0' = IF op = "translate" THEN out ELSE <<>>
        /\ visOp' = KnownVisOp
        /\ preRender' = IF KnownVisOp = "none" THEN <<>> ELSE preRender

\* translator.handle_command(command)
HandleCommandCall(command) ==
    \E r \in {handle_command(Self, command)} :
        /\ SetSelf(r)
        /\ out' = <<>>
        /\ op' = IF command \in {"clear_prev_strokes", "toggle_space_after"}
                 THEN command ELSE "other"
        /\ removed' = Len(prev_strokes) - Len(r.prev_strokes)
        /\ op0' = "none"
        /\ out0' = <<>>
        /\ visOp' = "none"
        /\ preRender' = <<>>

\* no second translator was run
NoTwin == <<>>

\* no pure function was called
NoCall == <<>>

\* StandardTranslator::new
InitTranslator(starting_strokes) ==
    /\ prev_strokes = starting_strokes
    /\ dict = Dictionary_new(RawDicts)
    /\ \E c \in RetroConfigs :
          /\ new_accepts(c[1], c[2])
          /\ retrospective_add_space = c[1]
          /\ add_space_insert = c[2]
    /\ space_after \in BOOLEAN
    /\ out = <<>>
    /\ op = "new"
    /\ removed = 0
    /\ op0 = "none"
    /\ out0 = <<>>
    /\ preRender = <<>>
    /\ visOp = "none"
    /\ buffer = <<>>
    /\ fed = <<>>
    /\ steps = 0
    /\ twin = NoTwin
    /\ call = NoCall
    /\ do_output = FALSE
    /\ dispatched = <<>>
    /\ listening = FALSE
    /\ reads = <<>>

----------------------------------------------------------------------------
(* Spec: every call, on histories of at most MaxHistory strokes *)

Init == InitTranslator(<<>>)

Translate ==
    \E stroke \in Strokes :
        /\ Len(prev_strokes) < MaxHistory
        /\ TranslateCall(stroke)
        /\ UNCHANGED <<buffer, fed, steps, twin, call,
                     do_output, dispatched, listening, reads>>

Undo == UndoCall /\ UNCHANGED <<buffer, fed, steps, twin, call,
             do_output, dispatched, listening, reads>>

HandleCommand ==
    \E command \in CommandNames :
        /\ HandleCommandCall(command)
        /\ UNCHANGED <<buffer, fed, steps, twin, call,
                     do_output, dispatched, listening, reads>>

Next == Translate \/ Undo \/ HandleCommand

Spec == Init /\ [][Next]_vars

----------------------------------------------------------------------------
(* SpecWin: strokes translated one at a time by a fresh translator, the    *)
(* commands applied downstream, on histories longer than the translation   *)
(* window                                                                  *)

\* most strokes a run of SpecWin translates
MaxWinLen == 12

\* most strokes other than KPA a run of SpecWin translates
MaxWinWords == 2

WinStrokes == {HL, KPA, AOE, DASH_S}

InitWin == InitTranslator(<<>>) /\ retrospective_add_space = <<>>

TranslateWin ==
    \E stroke \in WinStrokes :
        /\ Len(fed) < MaxWinLen
        /\ stroke = KPA \/ Cardinality({i \in 1..Len(fed) : fed[i] # KPA}) < MaxWinWords
        /\ TranslateCall(stroke)
        /\ buffer' = ApplyAll(buffer, out')
        /\ fed' = Append(fed, stroke)
        /\ UNCHANGED <<steps, twin, call,
                     do_output, dispatched, listening, reads>>

SpecWin == InitWin /\ [][TranslateWin]_vars

\* C1, as stated: the commands of the strokes fed so far, applied in order to an
\* empty buffer, give the rendering of a one-shot translation of all of them.
C1_BufferIsOneShotRender == buffer = Render(dict, fed, space_after)

\* C1, amended: the same for at most 11 strokes (the translation window of 10
\* strokes plus the one being translated), none of them a retro-space stroke;
\* the history is then the strokes fed.
C1_BufferIsOneShotRenderWithinWindow ==
    Len(fed) <= MAX_TRANSLATION_STROKE_LEN + 1 =>
        /\ prev_strokes = fed
        /\ buffer = Render(dict, fed, space_after)

C1_Witness ==
    /\ Len(fed) = MAX_TRANSLATION_STROKE_LEN + 1
    /\ fed[1] = HL /\ fed[Len(fed)] = AOE
    /\ op = "translate" /\ out # <<NoOp>>
    /\ buffer = Render(dict, fed, space_after)

----------------------------------------------------------------------------
(* SpecBuf: a few calls of translate and handle_command, the calls that    *)
(* can add strokes, on a translator whose history is at the size of the    *)
(* stroke buffer                                                           *)

\* most calls a run of SpecBuf makes
MaxBufSteps == 2

\* how far from the end of a starting history its textual stroke may be
MaxBufTail == 1

BufStrokes == {HL, KPA, ASTAR}

\* n strokes KPA, the k-th replaced by H-L
BufHistory(n, k) == [i \in 1..n |-> IF i = k THEN HL ELSE KPA]

\* the histories translate leaves after MAX_STROKE_BUFFER - 1 or
\* MAX_STROKE_BUFFER calls, one with H-L and the others with KPA
BufStarts ==
    UNION {{BufHistory(n, k) : k \in (n - MaxBufTail)..n} :
              n \in {MAX_STROKE_BUFFER - 1, MAX_STROKE_BUFFER}}

InitBuf ==
    \E starting_strokes \in BufStarts :
        /\ InitTranslator(starting_strokes)
        /\ retrospective_add_space # <<>>

TranslateBuf ==
    \E stroke \in BufStrokes :
        /\ steps < MaxBufSteps
        /\ TranslateCall(stroke)
        /\ steps' = steps + 1
        /\ UNCHANGED <<buffer, fed, twin, call,
                     do_output, dispatched, listening, reads>>

HandleCommandBuf ==
    \E command \in CommandNames :
        /\ steps < MaxBufSteps
        /\ HandleCommandCall(command)
        /\ steps' = steps + 1
        /\ UNCHANGED <<buffer, fed, twin, call,
                     do_output, dispatched, listening, reads>>

NextBuf == TranslateBuf \/ HandleCommandBuf

SpecBuf == InitBuf /\ [][NextBuf]_vars

\* C2: from a history of at most 50 strokes, after any calls of translate, undo
\* and handle_command, prev_strokes holds at most 50 strokes.
C2_HistoryWithinStrokeBuffer == Len(prev_strokes) <= MAX_STROKE_BUFFER

\* the indices of the strokes of ps whose own translation is textual
TextualIndices(ps) == {i \in 1..Len(ps) : StrokeIsText(dict, ps[i])}

\* ps with the space stroke put immediately before its newest textual stroke
SpaceBeforeNewestText(ps) ==
    LET k == Max(TextualIndices(ps))
    IN  SubSeq(ps, 1, k - 1) \o <<add_space_insert[1]>> \o SubSeq(ps, k, Len(ps))

\* what C7 says of a call of translate with a retro-space stroke: the history
\* after it is the history before it with add_space_insert put in, one stroke
\* longer, and the place is immediately before the newest textual stroke
RetroSpaceStep ==
    op' = "retro" =>
        /\ \E index \in 0..Len(prev_strokes) :
              prev_strokes' = InsertAt(prev_strokes, index, add_space_insert[1])
        /\ Len(prev_strokes') = Len(prev_strokes) + 1
        /\ TextualIndices(prev_strokes) # {}
              => prev_strokes' = SpaceBeforeNewestText(prev_strokes)

----------------------------------------------------------------------------
(* Properties of undo *)

\* the history as it was before the undo() that has just returned cannot be
\* read from the state; these are about the step itself
PrevTranslations == translate_strokes(dict, prev_strokes)

\* the lengths k of proper prefixes of the history whose rendering differs
\* visibly from the rendering of the whole history
VisibleCuts ==
    {k \in 0..(Len(prev_strokes) - 1) :
        translation_diff(PrevTranslations,
                         translate_strokes(dict, SubSeq(prev_strokes, 1, k)),
                         space_after) # <<NoOp>>}

\* C3, as stated: after a translate whose diff was not NoOp, undo() returns
\* Replace(k, "") with an empty insert string and k the number of characters
\* the stroke typed.
C3_UndoEmitsBackspacesOnly ==
    (op = "undo" /\ op0 = "translate" /\ out0[1] # NoOp) =>
        /\ out[1].c = "Replace"
        /\ out[1].s = <<>>
        /\ out[1].n = Len(out0[1].s)

\* C3, amended: when the stroke just translated only appended text (its diff was
\* Replace(0, t)) to a history of at most 10 strokes, undo() removes that one
\* stroke and returns Replace(k, "") with k the number of characters of t.
C3_UndoOfAppendedText ==
    (/\ op = "undo" /\ op0 = "translate"
     /\ out0[1].c = "Replace" /\ out0[1].n = 0
     /\ Len(prev_strokes) + removed <= MAX_TRANSLATION_STROKE_LEN + 1) =>
        /\ out[1] = Replace(Len(out0[1].s), <<>>)
        /\ removed = 1

C3_Witness ==
    /\ op = "undo" /\ op0 = "translate"
    /\ out0 = <<Replace(0, <<" ">> \o W_hello)>>
    /\ out = <<Replace(6, <<>>)>>
    /\ prev_strokes # <<>>

C5_UndoRemovesShortestVisibleSuffix ==
    [][(op' = "undo" /\ VisibleCuts # {}) =>
          /\ prev_strokes' = SubSeq(prev_strokes, 1, Max(VisibleCuts))
          /\ out' = translation_diff(PrevTranslations,
                                     translate_strokes(dict, prev_strokes'),
                                     space_after)
          /\ out' # <<NoOp>>]_vars

C5_Witness ==
    /\ op = "undo" /\ out # <<NoOp>>
    /\ removed >= 2
    /\ prev_strokes # <<>>

\* C6: undo() on an empty history, or on one where no removal of a suffix changes
\* the rendering visibly, returns [NoOp] and leaves the history empty.
C6_UndoWithNothingVisible ==
    [][(op' = "undo" /\ VisibleCuts = {}) =>
          /\ out' = <<NoOp>>
          /\ prev_strokes' = <<>>]_vars

C6_Witness ==
    /\ op = "undo" /\ out = <<NoOp>>
    /\ removed >= 2
    /\ prev_strokes = <<>>

----------------------------------------------------------------------------
(* Properties of the retro-space insertion *)

NoTextualStroke(ps) == \A i \in 1..Len(ps) : ~StrokeIsText(dict, ps[i])

\* C8: a retro-space stroke translated while no stroke of the history has a
\* textual translation (the empty history included) puts add_space_insert at
\* position 0, before all the strokes that were there.
C8_RetroSpaceAtFrontWhenNoText ==
    [][(op' = "retro" /\ NoTextualStroke(prev_strokes) /\ add_space_insert # None) =>
          /\ prev_strokes'[1] = add_space_insert[1]
          /\ Len(prev_strokes) <= MAX_STROKE_BUFFER => Tail(prev_strokes') = prev_strokes]_vars

C8_Witness ==
    /\ op = "retro"
    /\ Len(prev_strokes) = 3
    /\ prev_strokes[1] = SP
    /\ NoTextualStroke(Tail(prev_strokes))

----------------------------------------------------------------------------
(* Properties of handle_command *)

\* C9: in every translator state, handle_command("clear_prev_strokes") applied
\* twice gives the translator that applying it once gives, with at most one
\* stroke in its history.
C9_ClearIsIdempotent ==
    LET once == handle_command(Self, "clear_prev_strokes")
    IN  /\ handle_command(once, "clear_prev_strokes") = once
        /\ Len(once.prev_strokes) <= 1
        /\ op = "clear_prev_strokes" => Self = handle_command(Self, "clear_prev_strokes")

C9_Witness ==
    /\ op = "clear_prev_strokes"
    /\ removed = 0
    /\ Len(prev_strokes) = 1

\* C10: handle_command("clear_prev_strokes") leaves the history holding just the
\* last stroke of the history before (none if that was empty) and changes no
\* other field of the translator.
C10_ClearKeepsLastStrokeOnly ==
    [][op' = "clear_prev_strokes" =>
          /\ prev_strokes' = IF prev_strokes = <<>> THEN <<>>
                             ELSE <<prev_strokes[Len(prev_strokes)]>>
          /\ UNCHANGED <<space_after, dict, retrospective_add_space, add_space_insert>>]_vars

C10_Witness ==
    /\ op = "clear_prev_strokes"
    /\ removed >= 2
    /\ Len(prev_strokes) = 1

\* C11: handle_command("toggle_space_after") negates space_after and changes no
\* other field, so a second toggle gives back the translator from before the
\* first; handle_command with any other string that is not "clear_prev_strokes"
\* changes no field.
C11_ToggleFlipsSpaceAfterOnly ==
    [][/\ op' = "toggle_space_after" =>
             /\ space_after' = ~space_after
             /\ UNCHANGED <<prev_strokes, dict, retrospective_add_space, add_space_insert>>
             /\ handle_command([prev_strokes |-> prev_strokes',
                                dict |-> dict',
                                retrospective_add_space |-> retrospective_add_space',
                                add_space_insert |-> add_space_insert',
                                space_after |-> space_after'],
                               "toggle_space_after") = Self
       /\ op' = "other" =>
             UNCHANGED <<prev_strokes, dict, retrospective_add_space,
                         add_space_insert, space_after>>]_vars

C11_Witness ==
    /\ op = "toggle_space_after"
    /\ space_after
    /\ Len(prev_strokes) >= 2

----------------------------------------------------------------------------
(* SpecPure: every stroke translated by two translators that agree on dict, *)
(* prev_strokes and space_after                                            *)

\* longest history the runs of SpecPure build
MaxPureLen == 2

\* (retrospective_add_space, add_space_insert) of the second translator
TwinConfigs ==
    {c \in RetroConfigs : new_accepts(c[1], c[2])}
        \cup {<<(<<ASTAR, PHFP>>), Some(SP)>>, <<(<<PHFP>>), Some(HL)>>}

\* the translator that differs from Self in the retro-space configuration c
TwinOf(c) == [Self EXCEPT !.retrospective_add_space = c[1], !.add_space_insert = c[2]]

TranslateTwins ==
    \E stroke \in Strokes, c \in TwinConfigs :
        /\ Len(prev_strokes) < MaxPureLen
        /\ TranslateCall(stroke)
        /\ twin' = LET r == translate(TwinOf(c), stroke)
                   IN  [stroke |-> stroke,
                        retrospective_add_space |-> c[1],
                        add_space_insert |-> c[2],
                        out |-> r.out,
                        prev_strokes |-> r.self.prev_strokes]
        /\ UNCHANGED <<buffer, fed, steps, call,
                     do_output, dispatched, listening, reads>>

SpecPure == Init /\ [][TranslateTwins]_vars

\* the two translators returned the same commands and hold the same history
TwinsAgree == twin.out = out /\ twin.prev_strokes = prev_strokes

\* the stroke is a retro-space stroke of both translators, with the same space
\* stroke, or of neither
SameRetroCase ==
    LET mine   == twin.stroke \in SeqRange(retrospective_add_space)
        theirs == twin.stroke \in SeqRange(twin.retrospective_add_space)
    IN  /\ mine <=> theirs
        /\ mine => add_space_insert = twin.add_space_insert

\* C12, as stated: two translators that agree on dict, prev_strokes, stroke and
\* space_after return the same commands and end with the same prev_strokes.
C12_TranslateDependsOnFourValues == twin # NoTwin => TwinsAgree

\* C12, amended: they do when they also agree on whether the stroke is a
\* retro-space stroke and, if it is one, on add_space_insert.
C12_TranslateDependsOnRetroCaseToo == (twin # NoTwin /\ SameRetroCase) => TwinsAgree

C12_Witness ==
    /\ twin # NoTwin
    /\ op = "retro"
    /\ twin.retrospective_add_space # retrospective_add_space
    /\ SameRetroCase
    /\ out # <<NoOp>>
    /\ TwinsAgree

----------------------------------------------------------------------------
(* SpecLookup: translate_strokes applied to stroke slices longer than the  *)
(* longest key it looks up, with a dictionary that holds longer keys       *)

\* longest run of KPA before and after the other strokes of a slice
MaxRun == 16

\* n strokes KPA
Run(n) == [i \in 1..n |-> KPA]

W_fifteen == <<"1", "5">>

W_sixteen == <<"1", "6">>

\* A dictionary file with a key of 15 strokes and a key of 16 strokes
EntriesLong ==
    << <<Run(LOOKUP_MAX_STROKE_LEN),     TranslationText(<<Lit(W_fifteen)>>)>>,
       <<Run(LOOKUP_MAX_STROKE_LEN + 1), TranslationText(<<Lit(W_sixteen)>>)>> >>

LookupDicts == <<Entries1, Entries2, EntriesLong>>

LookupWords == {<<>>, <<HL>>, <<WORLD>>, <<HL, WORLD>>, <<WORLD, HL>>,
                <<HL, HL, WORLD>>, <<WORLD, HL, WORLD>>, <<ASTAR>>}

LookupInputs ==
    {Run(a) \o w \o Run(b) : a \in 0..MaxRun, b \in 0..MaxRun, w \in LookupWords}

\* every variable as before the first call, with d for the dictionary and no
\* retro-space strokes configured
InitIdle(d) ==
    /\ prev_strokes = <<>>
    /\ dict = d
    /\ retrospective_add_space = <<>>
    /\ add_space_insert = None
    /\ space_after = FALSE
    /\ out = <<>>
    /\ op = "new"
    /\ removed = 0
    /\ op0 = "none"
    /\ out0 = <<>>
    /\ preRender = <<>>
    /\ visOp = "none"
    /\ buffer = <<>>
    /\ fed = <<>>
    /\ steps = 0
    /\ twin = NoTwin
    /\ call = NoCall
    /\ do_output = FALSE
    /\ dispatched = <<>>
    /\ listening = FALSE
    /\ reads = <<>>

InitLookup == InitIdle(Dictionary_new(LookupDicts))

\* dict.translate(strokes)
LookupCall ==
    \E strokes \in LookupInputs :
        /\ call = NoCall
        /\ call' = [strokes |-> strokes,
                    translations |-> translate_strokes(dict, strokes),
                    starts |-> StartsFrom(dict, strokes, 0),
                    lookups |-> LookupsIssued(dict, strokes)]
        /\ UNCHANGED <<prev_strokes, dict, retrospective_add_space, add_space_insert,
                       space_after, out, op, removed, op0, out0, preRender, visOp,
                       buffer, fed, steps, twin,
                                    do_output, dispatched, listening, reads>>

SpecLookup == InitLookup /\ [][LookupCall]_vars

\* the number of strokes of the longest key of at most 15 strokes that begins
\* at the 0-based position start of strokes, 0 if there is none
LongestKeyAt(strokes, start) ==
    LET lens == {n \in 1..LOOKUP_MAX_STROKE_LEN :
                    /\ start + n <= Len(strokes)
                    /\ SubSeq(strokes, start + 1, start + n) \in DOMAIN dict}
    IN  IF lens = {} THEN 0 ELSE Max(lens)

\* C13: the lookup starts at position 0; at each position it starts from it
\* emits the translation of the longest key of at most 15 strokes that begins
\* there and goes on after that key, or, with no such key, emits UnknownStroke
\* of the one stroke and goes on after it; it ends at the end of the slice.
C13_LookupIsGreedyLongestMatch ==
    call # NoCall =>
        LET strokes == call.strokes
            starts  == call.starts
            after(i) == IF i < Len(starts) THEN starts[i + 1] ELSE Len(strokes)
        IN  /\ Len(call.translations) = Len(starts)
            /\ strokes # <<>> => starts[1] = 0
            /\ strokes = <<>> => starts = <<>>
            /\ \A i \in 1..Len(starts) :
                  LET n == LongestKeyAt(strokes, starts[i])
                  IN  IF n > 0
                      THEN /\ call.translations[i]
                                = dict[SubSeq(strokes, starts[i] + 1, starts[i] + n)]
                           /\ after(i) = starts[i] + n
                      ELSE /\ call.translations[i]
                                = TranslationText(<<UnknownStroke(strokes[starts[i] + 1])>>)
                           /\ after(i) = starts[i] + 1

C13_Witness ==
    /\ call # NoCall
    /\ call.strokes = <<KPA, WORLD, HL, WORLD>>
    /\ call.translations = <<dict[<<KPA>>],
                             TranslationText(<<UnknownStroke(WORLD)>>),
                             dict[<<HL, WORLD>>]>>

\* C14: every slice handed to dict.lookup holds at least 1 and at most 15
\* strokes of the input, and the entry of a key of more than 15 strokes is
\* never emitted.
C14_LookupSlicesAtMostFifteen ==
    call # NoCall =>
        /\ \A q \in call.lookups :
              /\ 0 <= q.start /\ q.start <= q.end /\ q.end < Len(call.strokes)
              /\ q.end - q.start + 1 <= LOOKUP_MAX_STROKE_LEN
        /\ \A i \in 1..Len(call.translations) :
              \A k \in DOMAIN dict :
                  Len(k) > LOOKUP_MAX_STROKE_LEN => call.translations[i] # dict[k]

C14_Witness ==
    /\ call # NoCall
    /\ call.strokes = Run(LOOKUP_MAX_STROKE_LEN + 1)
    /\ call.translations = <<dict[Run(LOOKUP_MAX_STROKE_LEN)], dict[<<KPA>>]>>
    /\ [start |-> 0, end |-> LOOKUP_MAX_STROKE_LEN - 1] \in call.lookups

----------------------------------------------------------------------------
(* SpecDict: Dictionary::new applied to lists of raw dictionaries that     *)
(* share keys                                                              *)

\* most raw dictionaries in a list
MaxDicts == 2

DictKeys == {<<HL>>, <<HL, WORLD>>}

DictValues == {TranslationText(<<Lit(W_hello)>>), TranslationText(<<Lit(W_fly)>>)}

DictEntries == {<<k, v>> : k \in DictKeys, v \in DictValues}

\* the entries of a raw dictionary: none, one, or two with different keys
RawDictSet ==
    {<<>>} \cup {<<e>> : e \in DictEntries}
           \cup {p \in DictEntries \X DictEntries : p[1][1] # p[2][1]}

RawDictLists == UNION {[1..n -> RawDictSet] : n \in 0..MaxDicts}

InitDict == InitIdle(EmptyMap)

\* Dictionary::new(raw_dicts)
DictionaryNewCall ==
    \E raw_dicts \in RawDictLists :
        /\ call = NoCall
        /\ dict' = Dictionary_new(raw_dicts)
        /\ call' = [raw_dicts |-> raw_dicts]
        /\ UNCHANGED <<prev_strokes, retrospective_add_space, add_space_insert,
                       space_after, out, op, removed, op0, out0, preRender, visOp,
                       buffer, fed, steps, twin,
                                    do_output, dispatched, listening, reads>>

SpecDict == InitDict /\ [][DictionaryNewCall]_vars

\* the raw dictionaries of a list that hold the key k
Holders(raw_dicts, k) ==
    {i \in 1..Len(raw_dicts) : \E j \in 1..Len(raw_dicts[i]) : raw_dicts[i][j][1] = k}

\* C15: the dictionary built from a list of raw dictionaries holds the keys of
\* all of them, each with the value of the last raw dictionary that holds it.
C15_LastDictionaryWins ==
    call # NoCall =>
        \A k \in DictKeys :
            LET holders == Holders(call.raw_dicts, k)
            IN  IF holders = {} THEN k \notin DOMAIN dict
                ELSE /\ k \in DOMAIN dict
                     /\ \E j \in 1..Len(call.raw_dicts[Max(holders)]) :
                           call.raw_dicts[Max(holders)][j] = <<k, dict[k]>>

C15_Witness ==
    /\ call # NoCall
    /\ call.raw_dicts = << <<(<<(<<HL>>), TranslationText(<<Lit(W_hello)>>)>>),
                             (<<(<<HL, WORLD>>), TranslationText(<<Lit(W_hello)>>)>>)>>,
                           <<(<<(<<HL, WORLD>>), TranslationText(<<Lit(W_fly)>>)>>)>> >>
    /\ dict[<<HL>>] = TranslationText(<<Lit(W_hello)>>)
    /\ dict[<<HL, WORLD>>] = TranslationText(<<Lit(W_fly)>>)

----------------------------------------------------------------------------
(* SpecDiff: the differ applied to pairs of short strings, one- and        *)
(* two-byte characters among them                                          *)

\* longest string the differ is given
MaxDiffLen == 3

DiffChars == {"a", "ß", SPACE}

DiffStrings == UNION {[1..n -> DiffChars] : n \in 0..MaxDiffLen}

W_deer == <<SPACE, "d", "e", "e", "r">>

W_Deer == <<SPACE, "D", "e", "e", "r">>

DiffInputs == (DiffStrings \X DiffStrings) \cup {<<W_deer, W_Deer>>}

InitDiff == InitIdle(Dictionary_new(RawDicts))

\* diff(old, new)
DiffCall ==
    \E input \in DiffInputs :
        /\ call = NoCall
        /\ call' = [old |-> input[1], new |-> input[2],
                    diff |-> text_diff(input[1], input[2])]
        /\ UNCHANGED <<prev_strokes, dict, retrospective_add_space, add_space_insert,
                       space_after, out, op, removed, op0, out0, preRender, visOp,
                       buffer, fed, steps, twin,
                                    do_output, dispatched, listening, reads>>

SpecDiff == InitDiff /\ [][DiffCall]_vars

\* C16: when the diff of old and new is Replace(b, tail), b is at most the
\* number of characters of old, and old without its last b characters, followed
\* by tail, is new.
C16_ReplaceTurnsOldIntoNew ==
    (call # NoCall /\ call.diff.c = "Replace") =>
        /\ call.diff.n <= Len(call.old)
        /\ SubSeq(call.old, 1, Len(call.old) - call.diff.n) \o call.diff.s = call.new

C16_Witness ==
    /\ call # NoCall
    /\ call.old = <<"a", "ß", "ß">>
    /\ call.new = <<"a", "ß", "a">>
    /\ call.diff = Replace(1, <<"a">>)

\* p characters begin both strings and no more than p do
IsCommonPrefixLen(old, new, p) ==
    /\ p <= Len(old) /\ p <= Len(new)
    /\ \A i \in 1..p : old[i] = new[i]
    /\ (p < Len(old) /\ p < Len(new)) => old[p + 1] # new[p + 1]

\* C17: the diff is NoOp exactly when old = new; otherwise it is
\* Replace(chars(old) - p, new after its first p characters) with p the length
\* of the longest common prefix, so nothing of the common prefix is backspaced.
C17_DiffIsMinimalEdit ==
    call # NoCall =>
        /\ call.diff = NoOp <=> call.old = call.new
        /\ call.old # call.new =>
              \E p \in 0..Len(call.old) :
                  /\ IsCommonPrefixLen(call.old, call.new, p)
                  /\ call.diff = Replace(Len(call.old) - p,
                                         SubSeq(call.new, p + 1, Len(call.new)))

C17_Witness ==
    /\ call # NoCall
    /\ call.old = W_deer
    /\ call.new = W_Deer
    /\ call.diff = Replace(4, <<"D", "e", "e", "r">>)

----------------------------------------------------------------------------
(* SpecDriver: main's pipeline.  SerialMachine::listen reads one stroke per *)
(* pass of its loop and runs the callback on it: undo or translate, then   *)
(* dispatch if output is enabled                                           *)

\* most passes of the listen loop
MaxReads == 3

STAR == <<"*">>

\* Stroke::is_undo: the canonical form is exactly "*"
is_undo(stroke) == stroke = STAR

\* dispatch that adds the commands to those of the stroke before
dispatch_Coalesces(controller, command) ==
    IF controller = <<>> THEN <<command>>
    ELSE Append(Front(controller), Last(controller) \o command)

\* state.controller.dispatch(command): the Controller receives one stroke's commands
dispatch(controller, command) == Append(controller, command)

\* a read loop that any failed read ends
keeps_listening_OnlyAfterOk(result) == result = "Ok"

\* SerialMachine::listen, the match on the result of read_exact: only BrokenPipe
\* breaks out of the loop
keeps_listening(result) == result # "BrokenPipe"

\* the strokes the machine sends to the driver
DriverStrokes == {HL, WORLD, AOE, ASTAR, STAR}

InitDriver ==
    /\ prev_strokes = <<>>
    /\ dict = Dictionary_new(RawDicts)
    /\ \E c \in RetroConfigs :
          /\ new_accepts(c[1], c[2])
          /\ retrospective_add_space = c[1]
          /\ add_space_insert = c[2]
    /\ space_after = FALSE
    /\ out = <<>>
    /\ op = "new"
    /\ removed = 0
    /\ op0 = "none"
    /\ out0 = <<>>
    /\ preRender = <<>>
    /\ visOp = "none"
    /\ buffer = <<>>
    /\ fed = <<>>
    /\ steps = 0
    /\ twin = NoTwin
    /\ call = NoCall
    /\ do_output \in BOOLEAN
    /\ dispatched = <<>>
    /\ listening = TRUE
    /\ reads = <<>>

\* ListenStroke that hands every stroke to translate
ListenStroke_TranslatesAll ==
    \E stroke \in DriverStrokes :
        /\ listening
        /\ steps < MaxReads
        /\ reads' = Append(reads, "Ok")
        /\ TranslateCall(stroke)
        /\ fed' = Append(fed, stroke)
        /\ dispatched' = IF do_output THEN dispatch(dispatched, out') ELSE dispatched
        /\ buffer' = IF do_output THEN ApplyAll(buffer, out') ELSE buffer
        /\ steps' = steps + 1
        /\ listening' = keeps_listening("Ok")
        /\ UNCHANGED <<twin, call, do_output>>

\* read_exact returned Ok: the callback runs on the stroke read
ListenStroke ==
    \E stroke \in DriverStrokes :
        /\ listening
        /\ steps < MaxReads
        /\ reads' = Append(reads, "Ok")
        /\ IF is_undo(stroke) THEN UndoCall ELSE TranslateCall(stroke)
        /\ fed' = Append(fed, stroke)
        /\ dispatched' = IF do_output THEN dispatch(dispatched, out') ELSE dispatched
        /\ buffer' = IF do_output THEN ApplyAll(buffer, out') ELSE buffer
        /\ steps' = steps + 1
        /\ listening' = keeps_listening("Ok")
        /\ UNCHANGED <<twin, call, do_output>>

\* read_exact failed: the callback does not run
ListenError(kind) ==
    /\ listening
    /\ steps < MaxReads
    /\ reads' = Append(reads, kind)
    /\ listening' = keeps_listening(kind)
    /\ steps' = steps + 1
    /\ UNCHANGED <<prev_strokes, dict, retrospective_add_space, add_space_insert,
                   space_after, out, op, removed, op0, out0, preRender, visOp,
                   buffer, fed, twin, call, do_output, dispatched>>

\* read_exact timed out: no data to read, the loop goes on
ListenTimedOut == ListenError("TimedOut")

\* read_exact failed with BrokenPipe: the machine disconnected, the loop ends
ListenBrokenPipe == ListenError("BrokenPipe")

\* read_exact failed with any other error: it is printed, the loop goes on
ListenOtherError == ListenError("Other")

NextDriver == ListenStroke \/ ListenTimedOut \/ ListenBrokenPipe \/ ListenOtherError

SpecDriver == InitDriver /\ [][NextDriver]_vars

\* the command vectors a fresh translator returns for the strokes, one after the other
RECURSIVE CommandsFor(_, _)
CommandsFor(translator, strokes) ==
    IF strokes = <<>> THEN <<>>
    ELSE LET r == IF is_undo(Head(strokes)) THEN undo(translator)
                  ELSE translate(translator, Head(strokes))
         IN  <<r.out>> \o CommandsFor(r.self, Tail(strokes))

\* what the strokes read so far produce, stroke by stroke
Produced == CommandsFor([Self EXCEPT !.prev_strokes = <<>>], fed)

\* C18 as stated: after every pass of the loop the Controller has received
\* exactly the command vectors of the strokes read so far, one dispatch call per
\* stroke, in the order the strokes were read.
C18_DispatchedInReadOrder == dispatched = Produced

\* C18: with output enabled, after every pass of the loop the Controller has
\* received exactly the command vectors of the strokes read so far, one dispatch
\* call per stroke, in the order the strokes were read; with output disabled
\* it has received nothing.
C18_DispatchedInReadOrderWhenOutputEnabled ==
    /\ do_output => dispatched = Produced
    /\ ~do_output => dispatched = <<>>

C18_Witness ==
    /\ do_output
    /\ fed = <<HL, WORLD, STAR>>
    /\ Len(dispatched) = 3
    /\ dispatched[1] # dispatched[2]
    /\ dispatched[2] # dispatched[3]

\* the successful reads among the first n
OkReads(n) == {i \in 1..n : reads[i] = "Ok"}

\* C22: the callback has run once for each successful read and for no failed
\* one; the loop is still running exactly when no read has failed with
\* BrokenPipe, so a timeout or another error does not end it and successful
\* reads after one are processed; a BrokenPipe is the last read there is, and
\* no stroke is processed after it.
C22_CallbackOncePerSuccessfulRead ==
    /\ [](/\ Len(fed) = Cardinality(OkReads(Len(reads)))
          /\ listening <=> (\A i \in 1..Len(reads) : reads[i] # "BrokenPipe")
          /\ \A i \in 1..Len(reads) : reads[i] = "BrokenPipe" => i = Len(reads))
    /\ [][/\ Len(fed') = Len(fed) + (IF Last(reads') = "Ok" THEN 1 ELSE 0)
          /\ Last(reads') # "Ok" => UNCHANGED <<prev_strokes, out, dispatched>>]_vars

C22_Witness ==
    /\ reads = <<"TimedOut", "Ok", "BrokenPipe">>
    /\ fed = <<HL>>
    /\ prev_strokes = <<HL>>
    /\ ~listening

----------------------------------------------------------------------------
(* SpecAbort: translate calls that return, and translate calls in which    *)
(* the rendering or the diff fails an assertion.  The history is updated   *)
(* (lib.rs 167-198) before translation_diff renders and diffs (200-202),   *)
(* so that is the history the failing call leaves behind.  Which calls     *)
(* fail is left open: any call may.                                        *)

\* longest history the runs of SpecAbort build
MaxAbortLen == 2

\* prev_strokes when translation_diff is entered: the oldest stroke dropped, the
\* new stroke pushed or the space stroke inserted
history_at_abort(self, stroke) == AddStroke(self, DropOldest(self.prev_strokes), stroke)

\* translator.translate(stroke) returns
TranslateReturns ==
    \E stroke \in Strokes :
        /\ op # "abort"
        /\ Len(prev_strokes) < MaxAbortLen
        /\ TranslateCall(stroke)
        /\ fed' = Append(fed, stroke)
        /\ UNCHANGED <<buffer, steps, twin, call, do_output, dispatched, listening, reads>>

\* translator.translate(stroke) panics inside translation_diff: nothing is returned
\* and the process ends
TranslateAborts ==
    \E stroke \in Strokes :
        /\ op # "abort"
        /\ Len(prev_strokes) < MaxAbortLen
        /\ prev_strokes' = history_at_abort(Self, stroke)
        /\ op' = "abort"
        /\ fed' = Append(fed, stroke)
        /\ UNCHANGED <<dict, retrospective_add_space, add_space_insert, space_after,
                       out, removed, op0, out0, preRender, visOp,
                       buffer, steps, twin, call, do_output, dispatched, listening, reads>>

NextAbort == TranslateReturns \/ TranslateAborts

SpecAbort == Init /\ [][NextAbort]_vars

----------------------------------------------------------------------------
(* The retro-space configuration *)

\* C20: in every reachable translator state a non-empty retrospective_add_space
\* comes with an add_space_insert: new refuses any other configuration, and no
\* translate, undo or handle_command changes either field.
C20_RetroSpaceHasSpaceStroke ==
    /\ [](retrospective_add_space # <<>> => add_space_insert # None)
    /\ [][UNCHANGED <<retrospective_add_space, add_space_insert>>]_vars

C20_Witness ==
    /\ retrospective_add_space = <<ASTAR>>
    /\ add_space_insert = Some(SP)
    /\ op = "undo"
    /\ op0 = "translate"
    /\ Len(prev_strokes) = 2
    /\ SP \in SeqRange(prev_strokes)

----------------------------------------------------------------------------
(* SpecRoute: the pipeline with the wayland Controller.  Each command a     *)
(* stroke produces goes either back to the Translator (TranslatorCommand)  *)
(* or to WaylandController::dispatch                                       *)

\* most strokes the runs of SpecRoute read
MaxRouteLen == 3

TranslatorCommand(s) == [c |-> "TranslatorCommand", s |-> s]

IsTranslatorCommand(cmd) == cmd.c = "TranslatorCommand"

SPAF == <<"S", "P", "A", "F">>

KHR == <<"K", "H", "R">>

\* a dictionary file with translator commands
EntriesRoute ==
    << <<(<<SPAF>>), TranslationCommand(<<TranslatorCommand("toggle_space_after")>>, None, FALSE)>>,
       <<(<<KHR>>),  TranslationCommand(<<TranslatorCommand("clear_prev_strokes")>>, None, FALSE)>> >>

RouteStrokes == {HL, KPA, PHFP, SPAF, KHR, STAR}

\* WaylandController::dispatch: Replace edits the text before the cursor, a
\* TranslatorCommand panics, every other command leaves the text alone
wayland_dispatch(pipeline, command) ==
    IF IsTranslatorCommand(command)
    THEN [pipeline EXCEPT !.dispatched = Append(@, command), !.listening = FALSE]
    ELSE [pipeline EXCEPT !.dispatched = Append(@, command),
                          !.buffer = ApplyCommand(@, command)]

\* a pipeline that hands every command to the Controller
route_DispatchesAll(pipeline, command) == wayland_dispatch(pipeline, command)

\* one command of a stroke: a TranslatorCommand goes to handle_command of the
\* Translator that produced it, any other command to the Controller
route(pipeline, command) ==
    IF IsTranslatorCommand(command)
    THEN [pipeline EXCEPT !.translator = handle_command(@, command.s)]
    ELSE wayland_dispatch(pipeline, command)

\* the commands of a stroke, in order, until the process ends
RECURSIVE RouteAll(_, _)
RouteAll(pipeline, commands) ==
    IF commands = <<>> \/ ~pipeline.listening THEN pipeline
    ELSE RouteAll(route(pipeline, Head(commands)), Tail(commands))

InitRoute ==
    /\ prev_strokes = <<>>
    /\ dict = Dictionary_new(<<Entries1, Entries2, EntriesRoute>>)
    /\ retrospective_add_space = <<>>
    /\ add_space_insert = None
    /\ space_after \in BOOLEAN
    /\ out = <<>>
    /\ op = "new"
    /\ removed = 0
    /\ op0 = "none"
    /\ out0 = <<>>
    /\ preRender = <<>>
    /\ visOp = "none"
    /\ buffer = <<>>
    /\ fed = <<>>
    /\ steps = 0
    /\ twin = NoTwin
    /\ call = NoCall
    /\ do_output = TRUE
    /\ dispatched = <<>>
    /\ listening = TRUE
    /\ reads = <<>>

\* one stroke through the pipeline: undo or translate, then every command routed
RouteStroke ==
    \E stroke \in RouteStrokes :
        /\ listening
        /\ Len(fed) < MaxRouteLen
        /\ \E r \in {IF is_undo(stroke) THEN undo(Self) ELSE translate(Self, stroke)} :
           \E p \in {RouteAll([translator |-> r.self, dispatched |-> dispatched,
                               buffer |-> buffer, listening |-> listening], r.out)} :
            /\ SetSelf(p.translator)
            /\ out' = r.out
            /\ op' = IF is_undo(stroke) THEN "undo" ELSE "translate"
            /\ fed' = Append(fed, stroke)
            /\ dispatched' = p.dispatched
            /\ buffer' = p.buffer
            /\ listening' = p.listening
            /\ UNCHANGED <<removed, op0, out0, preRender, visOp, steps, twin, call, do_output,
                       reads>>

SpecRoute == InitRoute /\ [][RouteStroke]_vars

\* the TranslatorCommands among the commands
TranslatorCommandsOf(commands) == SelectSeq(commands, IsTranslatorCommand)

----------------------------------------------------------------------------
(* Strokes that type nothing *)

W_Hello == <<"H", "e", "l", "l", "o">>

\* a translate (not of a retro-space stroke) has just left the rendering of the
\* history as it was
TextUnchangedStep ==
    /\ op' = "translate"
    /\ Render(dict, prev_strokes', space_after) = Render(dict, prev_strokes, space_after)

\* C23 as stated: a translate that leaves the rendered text unchanged returns
\* exactly [NoOp] and appends the stroke to prev_strokes.
C23_InvisibleStrokeReturnsNoOpOnly ==
    [][TextUnchangedStep =>
          /\ out' = <<NoOp>>
          /\ \E stroke \in Strokes : prev_strokes' = Append(prev_strokes, stroke)]_vars

\* C23: a translate that leaves the rendered text unchanged returns NoOp as its
\* one text command, followed by nothing but the commands of the Command
\* translations the stroke brought (so exactly [NoOp] when it brought none), and
\* appends the stroke to prev_strokes; KPA (ForceCapitalize) translated before
\* H-L capitalizes what H-L types.
C23_InvisibleStrokeReturnsNoOpAndIsKept ==
    /\ [][TextUnchangedStep =>
             /\ out'[1] = NoOp
             /\ Tail(out') = new_commands(translate_strokes(dict, prev_strokes),
                                          translate_strokes(dict, prev_strokes'))
             /\ \A i \in 2..Len(out') : out'[i].c \notin {"Replace", "NoOp"}
             /\ \E stroke \in Strokes : prev_strokes' = Append(prev_strokes, stroke)]_vars
    /\ []((prev_strokes = <<KPA, HL>> /\ op = "translate") =>
             out = <<Replace(0, IF space_after THEN Append(W_Hello, SPACE)
                                ELSE <<SPACE>> \o W_Hello)>>)

C23_Witness ==
    /\ op = "translate"
    /\ prev_strokes = <<HL, KPA>>
    /\ out = <<NoOp>>

----------------------------------------------------------------------------
(* SpecFormat: parse_translation applied to short atom lists, with          *)
(* space_after off and on                                                  *)

\* longest atom list the formatter is given
MaxAtoms == 3

W_fLy == <<"f", "L", "y">>

W_12 == <<"1", "2">>

NUM_STROKE == <<"3", "-", "4">>

\* an Attached that orthography applies to and that carries the capitalization
A_s_carry == Attached(<<"s">>, FALSE, "ApplyOrthography", TRUE)

A_s == Attached(<<"s">>, FALSE, "ApplyOrthography", FALSE)

\* an Attached that suppresses the space after it
A_ly == Attached(<<"l", "y">>, TRUE, "AttachOnly", FALSE)

A_b_carry == Attached(<<"b">>, TRUE, "DoNotAttach", TRUE)

FormatAtoms ==
    {Lit(W_fLy), Lit(<<>>), Lit(W_12), Glued(<<"g">>), UnknownStroke(NUM_STROKE),
     StateAction(ForceCapitalize), StateAction(SameCase(TRUE)), StateAction(Clear),
     A_s_carry, A_s, A_ly, A_b_carry,
     TextAction(CapitalizePrev), TextAction(SuppressSpacePrev)}

FormatInputs == UNION {[1..n -> FormatAtoms] : n \in 0..MaxAtoms}

\* the formatter after the loop over the atoms: its state and the string so far
Formatted(atoms) == ParseLoop(atoms, 1, [state |-> DefaultState, str |-> <<>>])

InitFormat == InitIdle(Dictionary_new(RawDicts))

\* parse_translation(atoms, false) and parse_translation(atoms, true)
FormatCall ==
    \E atoms \in FormatInputs :
        /\ call = NoCall
        /\ call' = [atoms |-> atoms,
                    before |-> parse_translation(atoms, FALSE),
                    after |-> parse_translation(atoms, TRUE)]
        /\ UNCHANGED <<prev_strokes, dict, retrospective_add_space, add_space_insert,
                       space_after, out, op, removed, op0, out0, preRender, visOp,
                       buffer, fed, steps, twin, do_output, dispatched, listening, reads>>

SpecFormat == InitFormat /\ [][FormatCall]_vars

\* a Lit that is not digits only
IsWord(t) == t.k = "Lit" /\ ~NUMBERS_ONLY_REGEX(t.text)

\* every word of the list preceded by one space
RECURSIVE SpacedWords(_)
SpacedWords(atoms) ==
    IF atoms = <<>> THEN <<>>
    ELSE <<SPACE>> \o Head(atoms).text \o SpacedWords(Tail(atoms))

\* C24: with space_after off, a list of non-numeric Lit atoms is formatted as
\* every word preceded by exactly one space; the empty list is formatted as the
\* empty string with space_after off and on.
C24_WordsEachAfterOneSpace ==
    call # NoCall =>
        /\ (\A i \in 1..Len(call.atoms) : IsWord(call.atoms[i]))
              => call.before = SpacedWords(call.atoms)
        /\ call.atoms = <<>> => (call.before = <<>> /\ call.after = <<>>)

C24_Witness ==
    /\ call # NoCall
    /\ call.atoms = <<Lit(W_fLy), Lit(<<>>), Lit(W_fLy)>>
    /\ call.before = <<SPACE>> \o W_fLy \o <<SPACE, SPACE>> \o W_fLy

----------------------------------------------------------------------------
(* The glue rule *)

\* the atoms that put text into the string
Emits(t) == t.k \in {"Lit", "Glued", "UnknownStroke", "Attached"}

\* a Glued atom or a Lit of digits only
IsGluedAtom(t) == t.k = "Glued" \/ (t.k = "Lit" /\ NUMBERS_ONLY_REGEX(t.text))

\* an unknown stroke of digits and hyphens, which is glued as well
IsNumberStroke(t) == t.k = "UnknownStroke" /\ NUMBER_TRANSLATION_REGEX(t.stroke)

\* the text an emitting atom puts into the string, before any change of case
AtomText(t) ==
    IF t.k = "UnknownStroke"
    THEN (IF IsNumberStroke(t) THEN remove_hyphens(t.stroke) ELSE t.stroke)
    ELSE t.text

\* the index of the atom emitted immediately before atom i, 0 if there is none
PrevEmitted(atoms, i) ==
    LET J == {j \in 1..(i - 1) : Emits(atoms[j])}
    IN  IF J = {} THEN 0 ELSE Max(J)

\* the characters atom i adds to the string built from the atoms before it
GrowthAt(atoms, i) ==
    LET acc == Formatted(SubSeq(atoms, 1, i - 1))
    IN  Len(ParseStep(acc, atoms[i]).str) - Len(acc.str)

\* atom i is emitted with no space before it / after exactly one space
EmittedUnspaced(atoms, i) == GrowthAt(atoms, i) = Len(AtomText(atoms[i]))

EmittedSpaced(atoms, i) == GrowthAt(atoms, i) = Len(AtomText(atoms[i])) + 1

\* a StateAction Clear lies between atoms j and i
ClearedBetween(atoms, j, i) ==
    \E m \in (j + 1)..(i - 1) : atoms[m] = StateAction(Clear)

\* C25 as stated: a Glued atom or digits-only Lit is emitted without a preceding
\* space exactly when the atom emitted immediately before it was Glued or digits
\* only; a glued atom after an ordinary word and an ordinary word after a glued
\* atom are separated by one space.
C25_GluedExactlyAfterGlued ==
    call # NoCall =>
        \A i \in 1..Len(call.atoms) :
            LET atoms == call.atoms
                j == PrevEmitted(atoms, i)
            IN  /\ IsGluedAtom(atoms[i]) =>
                      /\ EmittedUnspaced(atoms, i) <=> (j # 0 /\ IsGluedAtom(atoms[j]))
                      /\ ~EmittedUnspaced(atoms, i) => EmittedSpaced(atoms, i)
                /\ (IsWord(atoms[i]) /\ j # 0 /\ IsGluedAtom(atoms[j]))
                      => EmittedSpaced(atoms, i)

\* C25: a Glued atom, a digits-only Lit or an unknown number stroke is emitted
\* without a preceding space exactly when the atom emitted immediately before it
\* was one of these three or an Attached with joined_next set, and no StateAction
\* Clear lies between the two; otherwise it is emitted after one space, and so
\* is an ordinary word after a glued atom.
C25_GluedAfterGluedOrJoinedUnlessCleared ==
    call # NoCall =>
        \A i \in 1..Len(call.atoms) :
            LET atoms == call.atoms
                j == PrevEmitted(atoms, i)
            IN  /\ (IsGluedAtom(atoms[i]) \/ IsNumberStroke(atoms[i])) =>
                      /\ EmittedUnspaced(atoms, i) <=>
                            /\ j # 0
                            /\ \/ IsGluedAtom(atoms[j]) \/ IsNumberStroke(atoms[j])
                               \/ (atoms[j].k = "Attached" /\ atoms[j].joined_next)
                            /\ ~ClearedBetween(atoms, j, i)
                      /\ ~EmittedUnspaced(atoms, i) => EmittedSpaced(atoms, i)
                /\ (IsWord(atoms[i]) /\ j # 0 /\ IsGluedAtom(atoms[j]))
                      => EmittedSpaced(atoms, i)

C25_Witness ==
    /\ call # NoCall
    /\ call.atoms = <<Lit(W_fLy), Glued(<<"g">>), Lit(W_12)>>
    /\ call.before = <<SPACE>> \o W_fLy \o <<SPACE, "g">> \o W_12

----------------------------------------------------------------------------
(* ForceCapitalize *)

\* an Attached that hands the pending capitalization on
Carries(t) == t.k = "Attached" /\ t.carry_capitalization

\* the state of the formatter when it comes to atom i
StateBefore(atoms, i) == Formatted(SubSeq(atoms, 1, i - 1)).state

\* atom i is an Attached that is joined to the text before it by orthography
OrthPath(atoms, i) ==
    /\ atoms[i].k = "Attached"
    /\ atoms[i].joined_prev = "ApplyOrthography"
    /\ ~StateBefore(atoms, i).suppress_space

\* what the string ends with once atom i is emitted: as many characters as the
\* atom's text has
EmittedTail(atoms, i) ==
    LET str == ParseStep(Formatted(SubSeq(atoms, 1, i - 1)), atoms[i]).str
    IN  SubSeq(str, Len(str) - Len(AtomText(atoms[i])) + 1, Len(str))

\* a ForceCapitalize precedes atom i with no atom emitted in between
ForcedNext(atoms, i) ==
    \E j \in 1..(i - 1) :
        /\ atoms[j] = StateAction(ForceCapitalize)
        /\ \A m \in (j + 1)..(i - 1) : ~Emits(atoms[m])

\* a ForceCapitalize precedes atom i with, in between, no Clear and no atom
\* emitted other than Attached atoms that carry the capitalization
ForcePending(atoms, i) ==
    \E j \in 1..(i - 1) :
        /\ atoms[j] = StateAction(ForceCapitalize)
        /\ \A m \in (j + 1)..(i - 1) :
              /\ Emits(atoms[m]) => Carries(atoms[m])
              /\ atoms[m] # StateAction(Clear)

\* a text with its first letter in upper case and the rest as written
FirstUpper(text) ==
    IF text = <<>> THEN <<>>
    ELSE char_to_uppercase(text[1]) \o SubSeq(text, 2, Len(text))

----------------------------------------------------------------------------
(* carry_capitalization *)

\* a word as a state with these capitalization flags emits it
Cased(state, text) ==
    LET word == IF state.force_capitalize THEN FirstUpper(text) ELSE text
    IN  IF state.force_same_case = None THEN word
        ELSE IF state.force_same_case[1] THEN to_uppercase(word)
        ELSE to_lowercase(word)

\* C27: an Attached atom with carry_capitalization is emitted as written, and
\* the state after it holds the force_capitalize and the force_same_case that
\* were pending before it, so that a word that follows it receives both.
C27_CarryingAttachedPassesCaseOn ==
    call # NoCall =>
        \A i \in 1..Len(call.atoms) :
            Carries(call.atoms[i]) =>
                LET before == StateBefore(call.atoms, i)
                    after  == StateBefore(call.atoms, i + 1)
                IN  /\ EmittedTail(call.atoms, i) = AtomText(call.atoms[i])
                    /\ after.force_capitalize = before.force_capitalize
                    /\ after.force_same_case = before.force_same_case
                    /\ (i < Len(call.atoms) /\ call.atoms[i + 1] = Lit(W_fLy)) =>
                           EmittedTail(call.atoms, i + 1) = Cased(before, W_fLy)

----------------------------------------------------------------------------
(* A suffix after a suppressed space *)

\* atom i is an Attached with joined_prev = ApplyOrthography right after an
\* Attached with joined_next
SuffixAfterJoin(atoms, i) ==
    /\ i >= 2
    /\ atoms[i].k = "Attached"
    /\ atoms[i].joined_prev = "ApplyOrthography"
    /\ atoms[i - 1].k = "Attached"
    /\ atoms[i - 1].joined_next

\* C28: an Attached atom with joined_prev = ApplyOrthography directly after an
\* atom with joined_next = true leaves the text before it as it was and adds
\* the letters of its own text and nothing else: no orthography rule, no space.
C28_SuffixAfterJoinIsLiteral ==
    call # NoCall =>
        \A i \in 1..Len(call.atoms) :
            SuffixAfterJoin(call.atoms, i) =>
                LET str0 == Formatted(SubSeq(call.atoms, 1, i - 1)).str
                    str1 == Formatted(SubSeq(call.atoms, 1, i)).str
                IN  /\ Len(str1) = Len(str0) + Len(call.atoms[i].text)
                    /\ SubSeq(str1, 1, Len(str0)) = str0
                    /\ to_lowercase(SubSeq(str1, Len(str0) + 1, Len(str1))) =
                           to_lowercase(call.atoms[i].text)

C28_Witness ==
    /\ call # NoCall
    /\ call.atoms = <<Lit(W_fLy), A_ly, A_s>>
    /\ call.before = <<SPACE, "f", "L", "y", "l", "y", "s">>

----------------------------------------------------------------------------
(* space_after *)

\* the atoms that set suppress_space of the state they leave
SetsSuppress(t) == Emits(t) \/ t = StateAction(Clear)

\* suppress_space of the state after the last atom: set by the last atom that
\* sets it, and only by an Attached with joined_next
FinalSuppress(atoms) ==
    LET setters == {i \in 1..Len(atoms) : SetsSuppress(atoms[i])}
    IN  /\ setters # {}
        /\ LET last == CHOOSE i \in setters : \A j \in setters : j <= i
           IN  atoms[last].k = "Attached" /\ atoms[last].joined_next

\* a text without its leading space, if it has one
WithoutLeadingSpace(str) ==
    IF str # <<>> /\ str[1] = SPACE THEN SubSeq(str, 2, Len(str)) ELSE str

\* C29: the text with space_after = true is the text with space_after = false
\* without its one leading space, if it has one, and with one space at the end
\* unless the final state has suppress_space; an empty text stays empty.
C29_SpaceAfterMovesTheSpace ==
    call # NoCall =>
        call.after =
            IF call.before = <<>> THEN <<>>
            ELSE IF FinalSuppress(call.atoms)
            THEN WithoutLeadingSpace(call.before)
            ELSE WithoutLeadingSpace(call.before) \o <<SPACE>>

C29_Witness ==
    /\ call # NoCall
    /\ call.atoms = <<Lit(W_fLy), Lit(W_fLy)>>
    /\ call.before = <<SPACE>> \o W_fLy \o <<SPACE>> \o W_fLy
    /\ call.after = W_fLy \o <<SPACE>> \o W_fLy \o <<SPACE>>

----------------------------------------------------------------------------
(* Text actions on the previous word *)

\* longest text perform_text_action is applied to
MaxTextLen == 3

TextChars == {"a", "B", "ß", "1", "-", "_", SPACE, "."}

TextInputs == UNION {[1..n -> TextChars] : n \in 0..MaxTextLen}

PrevWordActions == {CapitalizePrev, SameCasePrev(TRUE), SameCasePrev(FALSE)}

InitText == InitIdle(Dictionary_new(RawDicts))

\* perform_text_action(text, action), and the same action on its result
TextActionCall ==
    \E text \in TextInputs, action \in PrevWordActions :
        /\ call = NoCall
        /\ call' = [text |-> text,
                    action |-> action,
                    result |-> perform_text_action(text, action),
                    again |-> perform_text_action(perform_text_action(text, action), action)]
        /\ UNCHANGED <<prev_strokes, dict, retrospective_add_space, add_space_insert,
                       space_after, out, op, removed, op0, out0, preRender, visOp,
                       buffer, fed, steps, twin, do_output, dispatched, listening, reads>>

SpecText == InitText /\ [][TextActionCall]_vars

\* a character of a word: alphanumeric, '-' or '_'
IsWordChar(c) == is_alphanumeric(c) \/ c \in {"-", "_"}

\* where the trailing word starts: the number of characters before the
\* trailing run of word characters
TrailingWordStart(text) ==
    CHOOSE k \in 0..Len(text) :
        /\ \A i \in (k + 1)..Len(text) : IsWordChar(text[i])
        /\ k > 0 => ~IsWordChar(text[k])

\* C30: CapitalizePrev and SameCasePrev(b) leave every character before the
\* trailing word as it was and change at most the case of the trailing word,
\* leave a text that ends in a non-word character as it was, and applied a
\* second time change nothing more.
C30_PrevWordActionsChangeOnlyTrailingWord ==
    call # NoCall =>
        LET k == TrailingWordStart(call.text)
        IN  /\ Len(call.result) >= k
            /\ SubSeq(call.result, 1, k) = SubSeq(call.text, 1, k)
            /\ to_uppercase(SubSeq(call.result, k + 1, Len(call.result))) =
                   to_uppercase(SubSeq(call.text, k + 1, Len(call.text)))
            /\ k = Len(call.text) => call.result = call.text
            /\ call.again = call.result

C30_Witness ==
    /\ call # NoCall
    /\ call.text = <<"B", ".", "a">>
    /\ call.action = CapitalizePrev
    /\ call.result = <<"B", ".", "A">>
    /\ call.again = <<"B", ".", "A">>

----------------------------------------------------------------------------
(* SuppressSpacePrev *)

\* longest text SuppressSpacePrev is applied to
MaxSuppressLen == 4

SuppressChars == {"a", ".", SPACE, TAB}

SuppressInputs == UNION {[1..n -> SuppressChars] : n \in 0..MaxSuppressLen}

InitSuppress == InitIdle(Dictionary_new(RawDicts))

\* perform_text_action(text, TextAction::SuppressSpacePrev)
SuppressSpaceCall ==
    \E text \in SuppressInputs :
        /\ call = NoCall
        /\ call' = [text |-> text,
                    result |-> perform_text_action(text, SuppressSpacePrev)]
        /\ UNCHANGED <<prev_strokes, dict, retrospective_add_space, add_space_insert,
                       space_after, out, op, removed, op0, out0, preRender, visOp,
                       buffer, fed, steps, twin, do_output, dispatched, listening, reads>>

SpecSuppress == InitSuppress /\ [][SuppressSpaceCall]_vars

\* the number of characters before the last word: the last word is what
\* follows the last whitespace
LastWordStart(text) ==
    CHOOSE k \in 0..Len(text) :
        /\ \A i \in (k + 1)..Len(text) : text[i] \notin {SPACE, TAB}
        /\ k > 0 => text[k] \in {SPACE, TAB}

\* C31: SuppressSpacePrev removes the space right before the last word and
\* keeps every other character in place; a text whose last word is not
\* preceded by a space is returned as it was.
C31_SuppressSpacePrevDeletesOneSpace ==
    call # NoCall =>
        LET k == LastWordStart(call.text)
        IN  IF k > 0 /\ call.text[k] = SPACE
            THEN call.result = SubSeq(call.text, 1, k - 1) \o
                               SubSeq(call.text, k + 1, Len(call.text))
            ELSE call.result = call.text

C31_Witness ==
    /\ call # NoCall
    /\ call.text = <<"a", SPACE, "a", ".">>
    /\ call.result = <<"a", "a", ".">>

----------------------------------------------------------------------------
(* The undo stroke in the driver loop *)

\* C32: in the driver loop the undo stroke is never in prev_strokes; a read of
\* the undo stroke is one call of undo() and leaves what undo() leaves, a read
\* of any other stroke is one call of translate() on that stroke.
C32_UndoStrokeGoesToUndo ==
    /\ [](\A i \in 1..Len(prev_strokes) : prev_strokes[i] # STAR)
    /\ [][fed' # fed =>
            \E stroke \in DriverStrokes :
                /\ fed' = Append(fed, stroke)
                /\ IF stroke = STAR
                   THEN /\ op' = "undo"
                        /\ prev_strokes' = undo(Self).self.prev_strokes
                        /\ out' = undo(Self).out
                   ELSE /\ op' \in {"translate", "retro"}
                        /\ prev_strokes' = translate(Self, stroke).self.prev_strokes
                        /\ out' = translate(Self, stroke).out]_vars

C32_Witness ==
    /\ fed = <<HL, STAR>>
    /\ reads = <<"Ok", "Ok">>
    /\ op = "undo"
    /\ prev_strokes = <<>>
    /\ out # <<NoOp>>

----------------------------------------------------------------------------
(* translate, then undo *)

\* C33 as stated: an undo() right after a translate of a pushed stroke that
\* returned something other than [NoOp] leaves the history as it was before
\* that translate, and the commands of the two calls, applied in turn to the
\* rendering of that history, give that rendering back.
C33_UndoRevertsTranslate ==
    [][(op = "translate" /\ out # <<NoOp>> /\ op' = "undo") =>
          LET H == Front(prev_strokes)
              text == Render(dict, H, space_after)
          IN  /\ prev_strokes' = H
              /\ ApplyAll(ApplyAll(text, out), out') = text]_vars

\* C33: the same for a translate whose text command is not NoOp, that is, one
\* that changed the rendered text.
C33_UndoRevertsVisibleTranslate ==
    [][(op = "translate" /\ out[1] # NoOp /\ op' = "undo") =>
          LET H == Front(prev_strokes)
              text == Render(dict, H, space_after)
          IN  /\ prev_strokes' = H
              /\ ApplyAll(ApplyAll(text, out), out') = text]_vars

C33_Witness ==
    /\ op = "undo" /\ op0 = "translate"
    /\ out0 = <<Replace(0, <<"s">>)>>
    /\ out = <<Replace(1, <<>>)>>
    /\ removed = 1
    /\ prev_strokes = <<HL>>

----------------------------------------------------------------------------
(* SpecEdit: the text on screen under translate, undo and toggle_space_after *)

\* most calls the runs of SpecEdit make
MaxEditSteps == 3

EditStrokes == {HL, WORLD, DASH_S, ASTAR}

\* translator.translate(stroke), its commands applied to the text
EditTranslate ==
    \E stroke \in EditStrokes :
        /\ steps < MaxEditSteps
        /\ TranslateCall(stroke)
        /\ buffer' = ApplyAll(buffer, out')
        /\ fed' = Append(fed, stroke)
        /\ steps' = steps + 1
        /\ UNCHANGED <<twin, call, do_output, dispatched, listening, reads>>

\* translator.undo(), its commands applied to the text
EditUndo ==
    /\ steps < MaxEditSteps
    /\ UndoCall
    /\ buffer' = ApplyAll(buffer, out')
    /\ steps' = steps + 1
    /\ UNCHANGED <<fed, twin, call, do_output, dispatched, listening, reads>>

\* translator.handle_command("toggle_space_after"): it returns no commands
EditToggle ==
    /\ steps < MaxEditSteps
    /\ HandleCommandCall("toggle_space_after")
    /\ steps' = steps + 1
    /\ UNCHANGED <<buffer, fed, twin, call, do_output, dispatched, listening, reads>>

NextEdit == EditTranslate \/ EditUndo \/ EditToggle

SpecEdit == Init /\ [][NextEdit]_vars

\* C34: the text made by the commands emitted so far is the rendering of the
\* current history under the current space_after.
C34_TextIsRenderOfHistory == buffer = Render(dict, prev_strokes, space_after)


----------------------------------------------------------------------------
(* SpecUndoRun: a translator constructed with starting strokes, on which undo()
   is called again and again and translate never *)

MaxUndoLen == 3

UndoStrokes == {HL, WORLD, KPA, DASH_S, PHFP}

UndoHistories == UNION {[1..n -> UndoStrokes] : n \in 0..MaxUndoLen}

\* StandardTranslator::new(raw_dicts, starting_strokes, ..): fed keeps the
\* starting strokes
InitUndoRun ==
    /\ prev_strokes \in UndoHistories
    /\ fed = prev_strokes
    /\ dict = Dictionary_new(RawDicts)
    /\ \E c \in RetroConfigs :
          /\ new_accepts(c[1], c[2])
          /\ retrospective_add_space = c[1]
          /\ add_space_insert = c[2]
    /\ space_after \in BOOLEAN
    /\ out = <<>>
    /\ op = "new"
    /\ removed = 0
    /\ op0 = "none"
    /\ out0 = <<>>
    /\ preRender = <<>>
    /\ visOp = "none"
    /\ buffer = <<>>
    /\ steps = 0
    /\ twin = NoTwin
    /\ call = NoCall
    /\ do_output = FALSE
    /\ dispatched = <<>>
    /\ listening = FALSE
    /\ reads = <<>>

\* undo() calls made in one run: one more than the longest history needs
MaxUndoCalls == MaxUndoLen + 1

\* translator.undo(), the only call made; steps counts the calls
UndoRun ==
    /\ steps < MaxUndoCalls
    /\ UndoCall
    /\ steps' = steps + 1
    /\ UNCHANGED <<buffer, fed, twin, call, do_output, dispatched, listening, reads>>

\* one more call is made: UndoRun has no other guard and every step of this
\* specification counts a call, so this is enabled exactly when UndoRun is and
\* the steps that take it are the UndoRun steps
UndoCalled == steps < MaxUndoCalls /\ steps' = steps + 1

\* the caller keeps calling undo()
SpecUndoRun == InitUndoRun /\ [][UndoRun]_vars /\ WF_steps(UndoCalled)

\* C35: an undo() on a non-empty history leaves a strictly shorter one, having
\* popped at least one and at most len(prev_strokes) strokes; undo() called again
\* and again with no translate in between eventually empties the history, and
\* from then on every undo() returns [NoOp] and leaves the history empty.
C35_UndoShortensUntilEmpty ==
    /\ [][op' = "undo" =>
            /\ prev_strokes # <<>> =>
                  /\ Len(prev_strokes') < Len(prev_strokes)
                  /\ removed' \in 1..Len(prev_strokes)
                  /\ prev_strokes' = SubSeq(prev_strokes, 1, Len(prev_strokes'))
            /\ prev_strokes = <<>> =>
                  /\ out' = <<NoOp>>
                  /\ prev_strokes' = <<>>]_vars
    /\ <>[](prev_strokes = <<>>)

\* three starting strokes taken back one undo() at a time, and one more undo()
\* on the emptied history
C35_Witness ==
    /\ fed = <<HL, HL, HL>>
    /\ steps = 4
    /\ op = "undo"
    /\ prev_strokes = <<>>
    /\ removed = 0
    /\ out = <<NoOp>>


----------------------------------------------------------------------------
(* SpecFrame: one translate call on a translator constructed with a history
   longer than the translation window, and the same call on a second translator
   whose history has the same newest strokes and other strokes before them *)

\* most strokes a starting history of SpecFrame holds before its newest
\* MAX_TRANSLATION_STROKE_LEN strokes
MaxOlder == 2

\* the last strokes of the window that vary; the ones before them are KPA
MaxWindowTail == 2

OlderStrokes == {HL, KPA, DASH_S}

FrameStrokes == {HL, KPA, WORLD, ASTAR}

OlderHistories == UNION {[1..n -> OlderStrokes] : n \in 0..MaxOlder}

FrameWindows ==
    {[i \in 1..(MAX_TRANSLATION_STROKE_LEN - MaxWindowTail) |-> KPA] \o t :
        t \in [1..MaxWindowTail -> {HL, KPA}]}

\* &self.prev_strokes[start..] as translate takes it before the stroke is added
Window(ps) == SubSeq(ps, WindowStart(ps) + 1, Len(ps))

\* StandardTranslator::new with starting strokes; fed keeps them
InitFrame ==
    /\ \E older \in OlderHistories, w \in FrameWindows : prev_strokes = older \o w
    /\ fed = prev_strokes
    /\ dict = Dictionary_new(RawDicts)
    /\ \E c \in RetroConfigs :
          /\ new_accepts(c[1], c[2])
          /\ retrospective_add_space = c[1]
          /\ add_space_insert = c[2]
    /\ space_after \in BOOLEAN
    /\ out = <<>>
    /\ op = "new"
    /\ removed = 0
    /\ op0 = "none"
    /\ out0 = <<>>
    /\ preRender = <<>>
    /\ visOp = "none"
    /\ buffer = <<>>
    /\ steps = 0
    /\ twin = NoTwin
    /\ call = NoCall
    /\ do_output = FALSE
    /\ dispatched = <<>>
    /\ listening = FALSE
    /\ reads = <<>>

\* translator.translate(stroke), and the same call on the translator that holds
\* other strokes before the same window
TranslateFrame ==
    \E stroke \in FrameStrokes, older \in OlderHistories :
        /\ op = "new"
        /\ Len(prev_strokes) >= MAX_TRANSLATION_STROKE_LEN
        /\ TranslateCall(stroke)
        /\ \E t \in {translate([Self EXCEPT !.prev_strokes = older \o Window(prev_strokes)],
                               stroke)} :
              twin' = [stroke |-> stroke,
                       before |-> older \o Window(prev_strokes),
                       out |-> t.out]
        /\ UNCHANGED <<buffer, fed, steps, call,
                     do_output, dispatched, listening, reads>>

SpecFrame == InitFrame /\ [][TranslateFrame]_vars

\* C36: translate returns the same commands for two histories that hold the
\* same window of newest strokes, whatever strokes they hold before it.
C36_CommandsDependOnWindowOnly ==
    twin # NoTwin => twin.out = out


----------------------------------------------------------------------------
(* SpecRetro: retro-space strokes on a translator constructed with a history,
   with S-P or with H-L (the first stroke of a two-stroke key) as the stroke
   that is inserted *)

MaxRetroLen == 3

RetroHistoryStrokes == {HL, WORLD, KPA, DASH_S}

RetroHistories == UNION {[1..n -> RetroHistoryStrokes] : n \in 0..MaxRetroLen}

\* StandardTranslator::new with starting strokes; fed keeps them
InitRetro ==
    /\ prev_strokes \in RetroHistories
    /\ fed = prev_strokes
    /\ dict = Dictionary_new(RawDicts)
    /\ retrospective_add_space = <<ASTAR>>
    /\ add_space_insert \in {Some(SP), Some(HL)}
    /\ space_after \in BOOLEAN
    /\ out = <<>>
    /\ op = "new"
    /\ removed = 0
    /\ op0 = "none"
    /\ out0 = <<>>
    /\ preRender = <<>>
    /\ visOp = "none"
    /\ buffer = <<>>
    /\ steps = 0
    /\ twin = NoTwin
    /\ call = NoCall
    /\ do_output = FALSE
    /\ dispatched = <<>>
    /\ listening = FALSE
    /\ reads = <<>>

\* translator.translate(A*)
TranslateRetro ==
    /\ Len(prev_strokes) <= MaxRetroLen
    /\ TranslateCall(ASTAR)
    /\ UNCHANGED <<buffer, fed, steps, twin, call,
                 do_output, dispatched, listening, reads>>

SpecRetro == InitRetro /\ [][TranslateRetro]_vars

\* the 0-based place before the newest stroke of ps that is textual on its own,
\* 0 when there is none
BeforeNewestText(ps) ==
    IF TextualIndices(ps) = {} THEN 0 ELSE Max(TextualIndices(ps)) - 1

\* the 0-based places of ps where a translation of its greedy lookup starts or
\* the last one ends
LookupBoundaries(ps) == SeqRange(StartsFrom(dict, ps, 0)) \cup {Len(ps)}

\* the greedy lookup of the history after the step is the one before it with
\* the translation of the space stroke put in after its first k translations
SpaceBetweenTranslations(k) ==
    LET old == translate_strokes(dict, prev_strokes)
    IN  translate_strokes(dict, prev_strokes') =
            SubSeq(old, 1, k) \o translate_strokes(dict, <<add_space_insert[1]>>)
                \o SubSeq(old, k + 1, Len(old))

\* the stroke is part of a key of two or more strokes
InLongKey(s) ==
    \E key \in DOMAIN dict : Len(key) > 1 /\ \E j \in 1..Len(key) : key[j] = s

\* C37, as stated: a retro-space stroke puts the space stroke at a boundary
\* between two translations of the greedy lookup of the history, and every
\* translation of that lookup is there, unchanged, after the insertion.
C37_RetroSpaceNeverSplits ==
    [][op' = "retro" =>
          /\ BeforeNewestText(prev_strokes) \in LookupBoundaries(prev_strokes)
          /\ \E k \in 0..Len(translate_strokes(dict, prev_strokes)) :
                SpaceBetweenTranslations(k)]_vars

\* C37, amended: the space stroke is put immediately before the newest stroke
\* that is textual on its own; when that place is a boundary between two
\* translations of the greedy lookup and the space stroke is part of no key of
\* several strokes, the translations before the place and the ones from it on
\* are the same after the insertion, with the space's translation between them.
C37_RetroSpaceAtBoundaryKeepsTranslations ==
    [][op' = "retro" =>
          LET index == BeforeNewestText(prev_strokes)
          IN  /\ prev_strokes' = InsertAt(prev_strokes, index, add_space_insert[1])
              /\ (/\ index \in LookupBoundaries(prev_strokes)
                  /\ ~InLongKey(add_space_insert[1]))
                    => SpaceBetweenTranslations(
                           Cardinality({b \in LookupBoundaries(prev_strokes) : b < index}))]_vars

\* S-P put between the two-stroke translation of H-L WORLD and the suffix -S
C37_Witness ==
    /\ op = "retro"
    /\ fed = <<HL, WORLD, DASH_S>>
    /\ prev_strokes = <<HL, WORLD, SP, DASH_S>>


----------------------------------------------------------------------------
(* The fields translate and undo leave alone *)

\* C38: translate and undo change only prev_strokes: dict,
\* retrospective_add_space, add_space_insert and space_after are after the call
\* what they were before it, and space_after changes only in
\* handle_command("toggle_space_after").
C38_TranslateAndUndoChangeHistoryOnly ==
    [][/\ op' \in {"translate", "retro", "undo"} =>
             /\ dict' = dict
             /\ retrospective_add_space' = retrospective_add_space
             /\ add_space_insert' = add_space_insert
             /\ space_after' = space_after
       /\ space_after' # space_after => op' = "toggle_space_after"]_vars

\* an undo right after a translate that has left H-L in the history: the flag
\* is set and the configuration is the constructed one
C38_Witness ==
    /\ op = "undo"
    /\ op0 = "translate"
    /\ removed = 1
    /\ prev_strokes = <<HL>>
    /\ space_after
    /\ retrospective_add_space = <<ASTAR>>
    /\ add_space_insert = Some(SP)
    /\ dict = Dictionary_new(RawDicts)


----------------------------------------------------------------------------
(* Termination of the greedy lookup *)

\* C39: the lookup of a slice ends after at most one iteration per stroke,
\* its start index grows on every iteration, and the emitted translations are
\* those of stroke ranges (a matched key, or one unknown stroke) that begin at
\* 0, follow one another without gap or overlap and end at the end of the
\* slice; the empty slice gives the empty list.
C39_LookupConsumesEveryStrokeOnce ==
    call # NoCall =>
        LET strokes == call.strokes
            starts  == call.starts
            n       == Len(starts)
            after(i) == IF i < n THEN starts[i + 1] ELSE Len(strokes)
            range(i) == SubSeq(strokes, starts[i] + 1, after(i))
        IN  /\ n <= Len(strokes)
            /\ Len(call.translations) = n
            /\ strokes = <<>> => call.translations = <<>>
            /\ strokes # <<>> => n > 0 /\ starts[1] = 0
            /\ \A i \in 1..n :
                  /\ starts[i] < after(i)
                  /\ after(i) <= Len(strokes)
                  /\ IF range(i) \in DOMAIN dict
                     THEN call.translations[i] = dict[range(i)]
                     ELSE /\ after(i) = starts[i] + 1
                          /\ call.translations[i]
                                = TranslationText(<<UnknownStroke(strokes[starts[i] + 1])>>)

\* two command strokes, a key of one stroke and a key of two strokes: four
\* iterations over five strokes
C39_Witness ==
    /\ call # NoCall
    /\ call.strokes = <<KPA, KPA, HL, HL, WORLD>>
    /\ call.starts = <<0, 1, 2, 3>>
    /\ Len(call.translations) = 4
====
